---- MODULE Spec2Model ----
(***************************************************************************)
(* Model of the n8n code nodes of news-religio-cat that plan a retrieval   *)
(* query: step_1 (normalize plan), step_2 (sanitize plan), step_4 (build   *)
(* the Qdrant filter), step_5 (fan-out of Qdrant requests), and the        *)
(* OpenSearch pair prepare_plan / build_dsl; and step_6, which normalizes  *)
(* the Qdrant responses and assembles the result of the query.             *)
(*                                                                         *)
(* JavaScript values are tagged records of one shape:                      *)
(*   t  the type tag ("undefined", "null", "int", "float", "string",       *)
(*      "nan", "array", "object", "throw")                                 *)
(*   n  the number of an "int"                                             *)
(*   s  the characters of a "string" (a sequence of 1-character strings)   *)
(*   a  the elements of an "array"                                         *)
(*   o  the own properties of an "object" (a function from key to value)   *)
(* "float" stands for a finite number that is not an integer (2.5), and    *)
(* "throw" for the abrupt completion of an expression (a TypeError).       *)
(* Scores are fixed-point numbers: "real" is a finite number of n          *)
(* millionths, "inf" is Infinity.                                          *)
(***************************************************************************)
EXTENDS Integers, Sequences, FiniteSets, TLC

VARIABLES pc, input, plan, s2, qFilter, embedding, requests, err, pp, dsl,
          allItems, nowTs, allPoints, output

vars == <<pc, input, plan, s2, qFilter, embedding, requests, err, pp, dsl,
          allItems, nowTs, allPoints, output>>

----------------------------------------------------------------------------
(* Bounds                                                                  *)

MaxStrLen == 2
MaxListLen == 2
MaxTopK == 12
MaxPoints == 3

----------------------------------------------------------------------------
(* JavaScript values                                                       *)

V(t, n, s, a, o) == [t |-> t, n |-> n, s |-> s, a |-> a, o |-> o]

Undef == V("undefined", 0, <<>>, <<>>, <<>>)
Null == V("null", 0, <<>>, <<>>, <<>>)
Throw == V("throw", 0, <<>>, <<>>, <<>>)
Float == V("float", 2, <<>>, <<>>, <<>>)
NaN == V("nan", 0, <<>>, <<>>, <<>>)
Int_(n) == V("int", n, <<>>, <<>>, <<>>)
Real(m) == V("real", m, <<>>, <<>>, <<>>)
Infinity == V("inf", 0, <<>>, <<>>, <<>>)
Str(s) == V("string", 0, s, <<>>, <<>>)
Arr(a) == V("array", 0, <<>>, a, <<>>)
Obj(o) == V("object", 0, <<>>, <<>>, o)

EmptyObj == Obj(<<>>)

\* ToBoolean(v) is false
Falsy(v) ==
  \/ v.t \in {"undefined", "null", "nan"}
  \/ v.t \in {"int", "real"} /\ v.n = 0
  \/ v.t = "string" /\ Len(v.s) = 0

\* v || d
OrElse(v, d) == IF Falsy(v) THEN d ELSE v

\* raw.k : property read, undefined when the property is missing
Get(raw, k) ==
  IF raw.t = "object" /\ k \in DOMAIN raw.o THEN raw.o[k] ELSE Undef

----------------------------------------------------------------------------
(* Strings                                                                 *)

IsWs(c) == c = " "

RECURSIVE TrimLeft(_)
TrimLeft(s) ==
  IF Len(s) = 0 THEN s
  ELSE IF IsWs(Head(s)) THEN TrimLeft(Tail(s)) ELSE s

RECURSIVE TrimRight(_)
TrimRight(s) ==
  IF Len(s) = 0 THEN s
  ELSE IF IsWs(s[Len(s)]) THEN TrimRight(SubSeq(s, 1, Len(s) - 1)) ELSE s

\* String.prototype.trim
Trim(s) == TrimRight(TrimLeft(s))

Digit(d) == <<"0", "1", "2", "3", "4", "5", "6", "7", "8", "9">>[d + 1]

RECURSIVE NatToStr(_)
NatToStr(n) ==
  IF n < 10 THEN <<Digit(n)>> ELSE NatToStr(n \div 10) \o <<Digit(n % 10)>>

\* String(v) for the values a filter list holds
ToStr(v) ==
  CASE v.t = "string" -> v.s
    [] v.t = "int" -> IF v.n < 0 THEN <<"-">> \o NatToStr(-v.n) ELSE NatToStr(v.n)
    [] v.t = "float" -> <<"2", ".", "5">>
    [] v.t = "null" -> <<"n", "u", "l", "l">>
    [] OTHER -> <<"u", "n", "d", "e", "f", "i", "n", "e", "d">>

----------------------------------------------------------------------------
(* step_2: sanitize_filters, clean_filter_list, drop_empty_filters         *)

ListKeys == {"site", "base_url", "url", "lang", "author", "article_id"}
DateKeys == {"date_from", "date_to"}
FilterKeys == ListKeys \cup DateKeys

\* cleanItems testing the string for emptiness before trimming it
RECURSIVE cleanItemsTestBeforeTrim(_)
cleanItemsTestBeforeTrim(items) ==
  IF Len(items) = 0 THEN <<>>
  ELSE LET v == Head(items)
           s == ToStr(v)
       IN IF v.t \in {"null", "undefined"} THEN cleanItemsTestBeforeTrim(Tail(items))
          ELSE IF Len(s) > 0 THEN <<Str(Trim(s))>> \o cleanItemsTestBeforeTrim(Tail(items))
          ELSE cleanItemsTestBeforeTrim(Tail(items))

\* the body of the for-of loop of cleanList
RECURSIVE cleanItems(_)
cleanItems(items) ==
  IF Len(items) = 0 THEN <<>>
  ELSE LET v == Head(items)
           s == Trim(ToStr(v))
       IN IF v.t \in {"null", "undefined"} THEN cleanItems(Tail(items))
          ELSE IF Len(s) > 0 THEN <<Str(s)>> \o cleanItems(Tail(items))
          ELSE cleanItems(Tail(items))

\* for (const v of values): an array yields its elements, a string its
\* characters, anything else is not iterable
cleanList(values) ==
  IF Falsy(values) THEN Arr(<<>>)
  ELSE IF values.t = "array" THEN Arr(cleanItems(values.a))
  ELSE IF values.t = "string"
    THEN Arr(cleanItems([i \in 1..Len(values.s) |-> Str(<<values.s[i]>>)]))
  ELSE Throw

\* (raw.date_from || '').trim()
cleanDate(v) ==
  IF Falsy(v) THEN Str(<<>>)
  ELSE IF v.t = "string" THEN Str(Trim(v.s))
  ELSE Throw

sanitizeFilters(raw0) ==
  LET raw == OrElse(raw0, EmptyObj)
      o == [k \in FilterKeys |->
              IF k \in ListKeys THEN cleanList(Get(raw, k)) ELSE cleanDate(Get(raw, k))]
  IN IF \E k \in FilterKeys : o[k].t = "throw" THEN Throw ELSE Obj(o)

\* dropEmpty without the test for empty arrays
dropEmptyKeepArrays(f) ==
  LET keep == {k \in DOMAIN f.o : ~(f.o[k].t = "string" /\ Len(f.o[k].s) = 0)}
  IN Obj([k \in keep |-> f.o[k]])

dropEmpty(f) ==
  LET keep == {k \in DOMAIN f.o :
                 /\ ~(f.o[k].t = "array" /\ Len(f.o[k].a) = 0)
                 /\ ~(f.o[k].t = "string" /\ Len(f.o[k].s) = 0)}
  IN Obj([k \in keep |-> f.o[k]])

\* dropEmpty(sanitizeFilters(plan.filters || {}))
sanitize(raw) ==
  LET f == sanitizeFilters(OrElse(raw, EmptyObj))
  IN IF f.t = "throw" THEN Throw ELSE dropEmpty(f)

----------------------------------------------------------------------------
(* step_1: normalize plan                                                  *)

fallback(v, def) ==
  IF v.t \in {"undefined", "null"} \/ (v.t = "string" /\ Len(Trim(v.s)) = 0)
  THEN def ELSE v

\* Number.isInteger(v) ? v : 0
intOrZero(v) == IF v.t = "int" THEN v.n ELSE 0

DefaultFilters ==
  Obj([k \in FilterKeys |-> IF k \in ListKeys THEN Arr(<<>>) ELSE Str(<<>>)])

normalizePlan(q) ==
  [intent |-> q.intent,
   query |-> fallback(q.query, Str(<<>>)),
   exact_phrase |-> q.exact_phrase,
   topK |-> intOrZero(q.topK),
   per_site |-> intOrZero(q.per_site),
   filters |-> IF ~Falsy(q.filters) /\ q.filters.t \in {"object", "array"}
               THEN q.filters ELSE DefaultFilters]

\* step_2: the item returned when nothing throws
sanitizePlan(p) ==
  [intent |-> p.intent,
   queryText |-> Trim(ToStr(OrElse(p.query, Str(<<>>)))),
   filters |-> sanitize(p.filters),
   topK |-> p.topK,
   per_site |-> p.per_site]

NoPlan ==
  [intent |-> "", query |-> Undef, exact_phrase |-> FALSE, topK |-> 0,
   per_site |-> 0, filters |-> Undef]

NoS2 ==
  [intent |-> "", queryText |-> <<>>, filters |-> Undef, topK |-> 0, per_site |-> 0]

----------------------------------------------------------------------------
(* step_4: parseDate and the Qdrant filter                                 *)

IsDigit(c) == c \in {"0", "1", "2", "3", "4", "5", "6", "7", "8", "9"}

DigitVal(c) == CHOOSE d \in 0..9 : Digit(d) = c

\* the number written by the digits s[i..j]
RECURSIVE Num(_, _, _)
Num(s, i, j) == IF j < i THEN 0 ELSE 10 * Num(s, i, j - 1) + DigitVal(s[j])

AllDigits(s, i, j) == \A x \in i..j : IsDigit(s[x])

\* /^\d{4}-\d{2}-\d{2}$/
IsBareDate(s) ==
  /\ Len(s) = 10
  /\ AllDigits(s, 1, 4) /\ s[5] = "-" /\ AllDigits(s, 6, 7) /\ s[8] = "-"
  /\ AllDigits(s, 9, 10)

\* YYYY-MM-DDTHH:MM:SSZ, the date-time form Date.parse takes here
IsDateTime(s) ==
  /\ Len(s) = 20
  /\ IsBareDate(SubSeq(s, 1, 10))
  /\ s[11] = "T" /\ AllDigits(s, 12, 13) /\ s[14] = ":" /\ AllDigits(s, 15, 16)
  /\ s[17] = ":" /\ AllDigits(s, 18, 19) /\ s[20] = "Z"

IsLeap(y) == (y % 4 = 0 /\ y % 100 # 0) \/ y % 400 = 0

DaysInMonth(y, m) ==
  IF m = 2 THEN (IF IsLeap(y) THEN 29 ELSE 28)
  ELSE IF m \in {4, 6, 9, 11} THEN 30 ELSE 31

\* days from 1970-01-01 to the civil date y-m-d (proleptic Gregorian)
DaysFromCivil(y, m, d) ==
  LET yy == IF m <= 2 THEN y - 1 ELSE y
      era == yy \div 400
      yoe == yy - era * 400
      mp == (m + 9) % 12
      doy == (153 * mp + 2) \div 5 + d - 1
      doe == yoe * 365 + yoe \div 4 - yoe \div 100 + doy
  IN era * 146097 + doe - 719468

ValidDate(y, m, d) == m \in 1..12 /\ d \in 1..DaysInMonth(y, m)

\* Math.floor(new Date(d + 'T..Z').getTime() / 1000): NaN for an invalid date
DateSeconds(s, h, mi, sec) ==
  LET y == Num(s, 1, 4)
      m == Num(s, 6, 7)
      d == Num(s, 9, 10)
  IN IF ValidDate(y, m, d) /\ h <= 23 /\ mi <= 59 /\ sec <= 59
     THEN Int_(DaysFromCivil(y, m, d) * 86400 + h * 3600 + mi * 60 + sec)
     ELSE NaN

\* parseDate(d, end): d is a string or undefined
parseDate(d, end) ==
  IF Falsy(d) THEN Null
  ELSE IF IsBareDate(d.s)
    THEN (IF end THEN DateSeconds(d.s, 23, 59, 59) ELSE DateSeconds(d.s, 0, 0, 0))
  ELSE IF IsDateTime(d.s)
    THEN LET t == DateSeconds(d.s, Num(d.s, 12, 13), Num(d.s, 15, 16), Num(d.s, 18, 19))
         IN IF t.t = "nan" THEN Null ELSE t
  ELSE Null

\* a condition of the filter: { key, match: { any } } or
\* { should: [ { key: 'published_at_ts', range }, { key: 'indexed_at_ts', range } ] }
fieldMatchAny(key, values) ==
  [type |-> "match", key |-> key, any |-> values, gte |-> Undef, lte |-> Undef]

dateShould(df, dt) ==
  [type |-> "should_range", key |-> "published_at_ts|indexed_at_ts", any |-> <<>>,
   gte |-> IF Falsy(df) THEN Undef ELSE df,
   lte |-> IF Falsy(dt) THEN Undef ELSE dt]

\* the order in which step_4 pushes the list conditions
Step4Keys == <<"site", "base_url", "lang", "author", "url", "article_id">>

RECURSIVE listMust(_, _)
listMust(f, i) ==
  IF i > Len(Step4Keys) THEN <<>>
  ELSE LET v == Get(f, Step4Keys[i])
       IN (IF v.t = "array" /\ Len(v.a) > 0
           THEN <<fieldMatchAny(Step4Keys[i], v.a)>> ELSE <<>>) \o listMust(f, i + 1)

NoFilter == [defined |-> FALSE, must |-> <<>>]

\* const qFilter = must.length ? { must } : undefined
buildFilter(filters) ==
  LET f == OrElse(filters, EmptyObj)
      df == parseDate(Get(f, "date_from"), FALSE)
      dt == parseDate(Get(f, "date_to"), TRUE)
      must == listMust(f, 1) \o
                (IF ~Falsy(df) \/ ~Falsy(dt) THEN <<dateShould(df, dt)>> ELSE <<>>)
  IN IF Len(must) > 0 THEN [defined |-> TRUE, must |-> must] ELSE NoFilter

----------------------------------------------------------------------------
(* step_5: the Qdrant requests                                             *)

FETCH_MULTIPLIER == 4
DEFAULT_ARTICLE_TOPK == 10
DEFAULT_CHUNK_TOPK == 10
DEFAULT_LATEST_PER_SITE == 5
DEFAULT_BACKGROUND_TOPK == 20
CONTEXT_CANDIDATE_MULTIPLIER == 6

COLLECTION_ARTICLES == "articles"
COLLECTION_CHUNKS == "chunks"

Max(a, b) == IF a >= b THEN a ELSE b
Min(a, b) == IF a <= b THEN a ELSE b

\* k || d on numbers
OrNum(k, d) == IF k = 0 THEN d ELSE k

buildSearchRequest(collection, vector, filter, limit) ==
  [op |-> "search", collection |-> collection, vector |-> vector,
   filter |-> filter, limit |-> limit]

buildScrollRequest(collection, filter, limit) ==
  [op |-> "scroll", collection |-> collection, vector |-> Undef,
   filter |-> filter, limit |-> limit]

\* articleFetchLimit without the fetch multiplier
articleFetchLimitNoMultiplier(k) ==
  LET base == OrNum(k, DEFAULT_ARTICLE_TOPK)
  IN Max(base, 1)

articleFetchLimit(k) ==
  LET base == OrNum(k, DEFAULT_ARTICLE_TOPK)
  IN Max(base, 1) * FETCH_MULTIPLIER

\* chunkFetchLimit that does not double the window of an exact phrase
chunkFetchLimitNoExact(k, forContext, exactPhrase) ==
  IF forContext
  THEN LET baseK == OrNum(k, DEFAULT_ARTICLE_TOPK)
           chunkLimit == Max(baseK * 4, 20)
       IN chunkLimit * CONTEXT_CANDIDATE_MULTIPLIER * FETCH_MULTIPLIER
  ELSE LET base == OrNum(k, DEFAULT_CHUNK_TOPK)
       IN Max(base, 1) * FETCH_MULTIPLIER

chunkFetchLimit(k, forContext, exactPhrase) ==
  IF forContext
  THEN LET baseK == OrNum(k, DEFAULT_ARTICLE_TOPK)
           chunkLimit == Max(baseK * 4, 20)
       IN chunkLimit * CONTEXT_CANDIDATE_MULTIPLIER * FETCH_MULTIPLIER
  ELSE LET base == OrNum(k, DEFAULT_CHUNK_TOPK)
           factor == IF exactPhrase THEN 2 ELSE 1
       IN Max(base * factor, 1) * FETCH_MULTIPLIER

\* Array.isArray(embedding) && embedding.length && queryText
hasVector(emb, queryText) ==
  emb.t = "array" /\ Len(emb.a) > 0 /\ Len(queryText) > 0

\* Array.isArray($json.filters?.site) ? $json.filters.site.filter(Boolean) : []
sitesOf(filters) ==
  LET v == Get(filters, "site")
  IN IF v.t = "array" THEN SelectSeq(v.a, LAMBDA x : ~Falsy(x)) ELSE <<>>

\* every site request sharing qFilter, no site condition added
siteFilterShared(qf, site) == qf

\* the filter of the request of one site: a copy of qFilter with the site
\* condition appended, qFilter itself when there is no qFilter
siteFilterOf(qf, site) ==
  IF qf.defined
  THEN [defined |-> TRUE, must |-> Append(qf.must, fieldMatchAny("site", <<site>>))]
  ELSE qf

\* a turn of the loop over the sites that pushes the condition on the array
\* of qFilter itself: every filter built so far shares that array
siteTurnAliased(st, site) ==
  IF st.qFilter.defined
  THEN LET must == Append(st.qFilter.must, fieldMatchAny("site", <<site>>))
       IN [qFilter |-> [defined |-> TRUE, must |-> must],
           filters |-> [i \in 1..(Len(st.filters) + 1) |-> [defined |-> TRUE, must |-> must]]]
  ELSE [qFilter |-> st.qFilter, filters |-> Append(st.filters, st.qFilter)]

\* a turn of the loop over the sites: qFilter and the filters of the requests
\* built so far, after the turn of the site
siteTurn(st, site) ==
  [qFilter |-> st.qFilter, filters |-> Append(st.filters, siteFilterOf(st.qFilter, site))]

\* for (const site of sites) { ... }
RECURSIVE siteLoop(_, _)
siteLoop(st, sites) ==
  IF Len(sites) = 0 THEN st ELSE siteLoop(siteTurn(st, Head(sites)), Tail(sites))

\* qFilter and the filters of the per-site requests after the loop
siteFilters(qf, sites) == siteLoop([qFilter |-> qf, filters |-> <<>>], sites)

\* the qFilter of the item once step_5 has run: the loop over the sites is the
\* only code that could write to it
qFilterAfter(j) ==
  IF \/ j.intent = "latest_by_site"
     \/ j.intent = "compare_viewpoints" /\ hasVector(j.embedding, j.queryText)
  THEN siteFilters(j.qFilter, sitesOf(j.filters)).qFilter
  ELSE j.qFilter

\* the requests of step_5 for the item of step_4
buildRequests(j, exactPhrase) ==
  LET intent == j.intent
      topK == j.topK
      perSite == j.per_site
      qf == j.qFilter
      emb == j.embedding
      sites == sitesOf(j.filters)
  IN CASE intent = "latest_by_site" ->
            LET per == OrNum(perSite, DEFAULT_LATEST_PER_SITE)
            IN IF Len(sites) > 0
               THEN [i \in 1..Len(sites) |->
                       buildScrollRequest(COLLECTION_ARTICLES, siteFilters(qf, sites).filters[i], per * 3)]
               ELSE <<buildScrollRequest(COLLECTION_ARTICLES, qf, per * 3)>>
       [] intent = "filter_only_articles" ->
            <<buildScrollRequest(COLLECTION_ARTICLES, qf,
                                 Max(OrNum(topK, DEFAULT_ARTICLE_TOPK), 1) * 2)>>
       [] intent = "filter_only_chunks" ->
            <<buildScrollRequest(COLLECTION_CHUNKS, qf,
                                 Max(OrNum(topK, DEFAULT_CHUNK_TOPK), 1) * 2)>>
       [] intent = "search_articles" ->
            IF hasVector(emb, j.queryText)
            THEN <<buildSearchRequest(COLLECTION_ARTICLES, emb, qf, articleFetchLimit(topK))>>
            ELSE <<buildScrollRequest(COLLECTION_ARTICLES, qf,
                                      Max(OrNum(topK, DEFAULT_ARTICLE_TOPK), 1) * 2)>>
       [] intent = "search_chunks" ->
            IF hasVector(emb, j.queryText)
            THEN <<buildSearchRequest(COLLECTION_CHUNKS, emb, qf,
                                      chunkFetchLimit(topK, FALSE, exactPhrase))>>
            ELSE <<buildScrollRequest(COLLECTION_CHUNKS, qf,
                                      Max(OrNum(topK, DEFAULT_CHUNK_TOPK), 1) * 2)>>
       [] intent \in {"summarize", "backgrounder"} ->
            LET baseK == OrNum(topK, DEFAULT_BACKGROUND_TOPK)
            IN IF hasVector(emb, j.queryText)
               THEN <<buildSearchRequest(COLLECTION_ARTICLES, emb, qf, articleFetchLimit(baseK)),
                      buildSearchRequest(COLLECTION_CHUNKS, emb, qf,
                                         chunkFetchLimit(baseK, TRUE, exactPhrase))>>
               ELSE <<buildScrollRequest(COLLECTION_ARTICLES, qf,
                                         Max(baseK, DEFAULT_ARTICLE_TOPK) * 2)>>
       [] intent = "compare_viewpoints" ->
            LET baseK == OrNum(topK, DEFAULT_ARTICLE_TOPK)
            IN IF hasVector(emb, j.queryText)
               THEN (IF Len(sites) > 0
                     THEN [i \in 1..Len(sites) |->
                             buildSearchRequest(COLLECTION_ARTICLES, emb,
                                                siteFilters(qf, sites).filters[i],
                                                articleFetchLimit(baseK))]
                     ELSE <<buildSearchRequest(COLLECTION_ARTICLES, emb, qf,
                                               articleFetchLimit(baseK))>>)
                    \o <<buildSearchRequest(COLLECTION_CHUNKS, emb, qf,
                                            chunkFetchLimit(baseK, TRUE, exactPhrase))>>
               ELSE <<buildScrollRequest(COLLECTION_ARTICLES, qf,
                                         Max(baseK, DEFAULT_ARTICLE_TOPK) * 2)>>
       [] OTHER -> <<>>

\* the item step_5 reads: the item of step_2 with the embedding of step_3
\* and the qFilter of step_4
step4Item(item, emb, qf) ==
  [intent |-> item.intent, queryText |-> item.queryText, filters |-> item.filters,
   topK |-> item.topK, per_site |-> item.per_site, embedding |-> emb, qFilter |-> qf]

----------------------------------------------------------------------------
(* prepare_plan                                                            *)

\* clampInt without the lower bound
clampIntNoMin(n, min, max, def) ==
  LET v == IF n.t = "int" THEN n.n ELSE def
  IN Min(max, v)

clampInt(n, min, max, def) ==
  LET v == IF n.t = "int" THEN n.n ELSE def
  IN Max(min, Min(max, v))

\* (value ?? "").toString().trim()
toStringSafe(value) ==
  IF value.t \in {"undefined", "null"} THEN <<>> ELSE Trim(ToStr(value))

\* the characters the regular expression of stripQuotes lists, the
\* non-ASCII ones by name
IsQuote(c) == c \in {"\"", "'", "laquo", "raquo", "ldquo", "rdquo"}

\* toStringSafe(input).replace(/[...]/g, "").trim()
stripQuotes(v) == Trim(SelectSeq(toStringSafe(v), LAMBDA c : ~IsQuote(c)))

DefaultQueryText ==
  <<"n", "o", "t", "iacute", "c", "i", "e", "s", " ", "r", "e", "l", "l", "e", "v", "a", "n", "t", "s">>

deriveQueryText(src) ==
  IF Len(toStringSafe(src.phrase)) > 0 THEN stripQuotes(src.phrase)
  ELSE IF Len(toStringSafe(src.keywords)) > 0 THEN toStringSafe(src.keywords)
  ELSE DefaultQueryText

ChunkFields == <<"url", "content", "chunk_ix", "published_at", "site", "lang", "author">>
ArticleFields == <<"title", "url", "published_at", "site", "author", "description">>

\* plan.filters without the site, lang and author that are empty arrays
dropEmptyTermLists(f0) ==
  LET f == OrElse(f0, EmptyObj)
      gone == {k \in {"site", "lang", "author"} :
                 Get(f, k).t = "array" /\ Len(Get(f, k).a) = 0}
  IN IF f.t = "object" THEN Obj([k \in DOMAIN f.o \ gone |-> f.o[k]]) ELSE f

\* the item prepare_plan returns for the planner output src
preparePlan(src) ==
  LET topK == clampInt(src.topK, 1, 50, 5)
      mode == IF src.mode # "" THEN src.mode
              ELSE IF src.semantic THEN "hybrid" ELSE "lexical"
      index == IF src.return_index # "" THEN src.return_index
               ELSE IF src.intent = "search_chunks" THEN "chunks" ELSE "articles"
      fields == IF Len(src.return_fields) > 0 THEN src.return_fields
                ELSE IF index = "chunks" THEN ChunkFields ELSE ArticleFields
      p == [intent |-> src.intent, topK |-> topK, mode |-> mode,
            semantic |-> (mode = "hybrid"), phrase |-> src.phrase,
            keywords |-> src.keywords, return_index |-> index,
            return_fields |-> fields, filters |-> dropEmptyTermLists(src.filters),
            sort |-> [by |-> "published_at", order |-> "desc"]]
  IN [plan |-> p, query_text |-> deriveQueryText(src), fields |-> fields,
      topK |-> topK, semantic |-> (mode = "hybrid"), mode |-> mode]

NoPp ==
  [plan |-> [intent |-> "", topK |-> 0, mode |-> "", semantic |-> FALSE,
             phrase |-> Undef, keywords |-> Undef, return_index |-> "",
             return_fields |-> <<>>, filters |-> Undef,
             sort |-> [by |-> "", order |-> ""]],
   query_text |-> <<>>, fields |-> <<>>, topK |-> 0, semantic |-> FALSE, mode |-> ""]

----------------------------------------------------------------------------
(* build_dsl                                                               *)

resolveField(field) ==
  IF field \in {"site", "author", "lang"} THEN field \o ".keyword" ELSE field

\* termFilter: <<>> stands for null
termFilter(field, values) ==
  IF values.t = "array" /\ Len(values.a) > 0
  THEN <<[type |-> "terms", key |-> resolveField(field), any |-> values.a,
          gte |-> Undef, lte |-> Undef]>>
  ELSE <<>>

rangeFilter(field, gte, lte) ==
  IF Falsy(gte) /\ Falsy(lte) THEN <<>>
  ELSE <<[type |-> "range", key |-> field, any |-> <<>>,
          gte |-> IF Falsy(gte) THEN Undef ELSE gte,
          lte |-> IF Falsy(lte) THEN Undef ELSE lte]>>

makeFilters(filters) ==
  IF Falsy(filters) THEN <<>>
  ELSE termFilter("site", Get(filters, "site"))
         \o termFilter("lang", Get(filters, "lang"))
         \o termFilter("author", Get(filters, "author"))
         \o rangeFilter("published_at", Get(filters, "date_from"), Get(filters, "date_to"))

lexicalQueryArticles(p, queryText) ==
  (IF ~Falsy(p.phrase) THEN <<"match_phrase:title", "match_phrase:description">> ELSE <<>>)
    \o (IF ~Falsy(p.keywords) \/ (Falsy(p.phrase) /\ Len(queryText) > 0)
        THEN <<"multi_match:search_text_short^3,title^4,description^2,content">> ELSE <<>>)

lexicalQueryChunks(p, queryText) ==
  (IF ~Falsy(p.phrase) THEN <<"match_phrase:content">> ELSE <<>>)
    \o (IF ~Falsy(p.keywords) \/ (Falsy(p.phrase) /\ Len(queryText) > 0)
        THEN <<"multi_match:content">> ELSE <<>>)

DslBody(kind, size, must, should, k, numCandidates) ==
  [kind |-> kind, size |-> size, must |-> must, should |-> should,
   minimum_should_match |-> IF Len(should) > 0 THEN 1 ELSE 0,
   k |-> k, num_candidates |-> numCandidates]

DslOut(index, body, intent, target) ==
  [thrown |-> FALSE, message |-> "", url |-> "/" \o index \o "/_search",
   body |-> body, intent |-> intent, target |-> target]

DslThrow(message, intent) ==
  [thrown |-> TRUE, message |-> message, url |-> "",
   body |-> DslBody("", 0, <<>>, <<>>, 0, 0), intent |-> intent, target |-> ""]

NoDsl == DslOut("", DslBody("", 0, <<>>, <<>>, 0, 0), "", "")

\* the embedding test without the test of the length
missingEmbeddingNonArrayOnly(emb) == emb.t # "array"

\* !Array.isArray(input.embedding) || !input.embedding.length
missingEmbedding(emb) == ~(emb.t = "array" /\ Len(emb.a) > 0)

\* the else branch of build_dsl answering as the summarize branch does
buildDslNoThrow(in, emb) ==
  DslOut("articles-live", DslBody("match_none", 0, <<>>, <<>>, 0, 0), in.plan.intent, "noop")

\* what build_dsl returns or throws for the item of prepare_plan and the
\* embedding that travels with it
buildDsl(in, emb) ==
  LET p == in.plan
      topK == OrNum(in.topK, OrNum(p.topK, 5))
      filtersBool == makeFilters(p.filters)
      noVector == missingEmbedding(emb)
      k == Max(5 * topK, 200)
      numCandidates == Max(10 * topK, 500)
  IN CASE p.intent = "latest_by_site" ->
            DslOut("articles-live",
                   DslBody("aggs", OrNum(p.topK, 5), filtersBool, <<>>, 0, 0),
                   p.intent, "aggs")
       [] p.intent = "search_articles" ->
            IF p.mode = "lexical"
            THEN DslOut("articles-live",
                        DslBody("bool", topK, filtersBool,
                                lexicalQueryArticles(p, in.query_text), 0, 0),
                        p.intent, "articles_lexical")
            ELSE IF noVector
            THEN DslThrow("Falta 'embedding' para busqueda semantica (search_articles hybrid).", "")
            ELSE DslOut("chunks-live", DslBody("knn", k, filtersBool, <<>>, k, numCandidates),
                        p.intent, "articles_from_chunks")
       [] p.intent = "search_chunks" ->
            IF p.mode = "lexical"
            THEN DslOut("chunks-live",
                        DslBody("bool", topK, filtersBool,
                                lexicalQueryChunks(p, in.query_text), 0, 0),
                        p.intent, "chunks_lexical")
            ELSE IF noVector
            THEN DslThrow("Falta 'embedding' para busqueda semantica (search_chunks hybrid).", "")
            ELSE DslOut("chunks-live", DslBody("knn", topK, filtersBool, <<>>, k, numCandidates),
                        p.intent, "chunks_knn")
       [] p.intent = "summarize" ->
            DslOut("articles-live", DslBody("match_none", 0, <<>>, <<>>, 0, 0),
                   p.intent, "noop")
       [] OTHER -> DslThrow("Intent no soportado: ", p.intent)

----------------------------------------------------------------------------
(* step_6: normalize the Qdrant responses and assemble the result          *)
(*                                                                         *)
(* vector_score and recency_weight are held in millionths, combined_score  *)
(* in hundred-millionths (a percentage times millionths).  step_6 declares *)
(* DEFAULT_ARTICLE_TOPK, DEFAULT_CHUNK_TOPK and DEFAULT_BACKGROUND_TOPK    *)
(* with the values step_5 gives them.                                      *)

\* the recency bias, in hundredths
RECENCY_WEIGHT == 35
HALF_LIFE_HOURS == 36

\* Number(value) of a string: the trimmed string is empty or all digits
StrToInt(s) ==
  LET x == Trim(s)
  IN IF Len(x) = 0 THEN 0
     ELSE IF AllDigits(x, 1, Len(x)) THEN Num(x, 1, Len(x)) ELSE 0

\* toInt(value): Math.floor(Number(value)) when finite, else 0
toInt(value) ==
  CASE value.t = "int" -> value.n
    [] value.t = "real" -> value.n \div 1000000
    [] value.t = "float" -> 2
    [] value.t = "string" -> StrToInt(value.s)
    [] OTHER -> 0

\* floor(1000000 * 2^(-k/36)) for k = 0..35
HalfLifeTable ==
  <<1000000, 980930, 962223, 943874, 925874, 908218, 890898, 873909, 857243,
    840896, 824860, 809130, 793700, 778564, 763717, 749153, 734867, 720853,
    707106, 693622, 680395, 667419, 654692, 642207, 629960, 617947, 606163,
    594603, 583264, 572141, 561231, 550528, 540029, 529731, 519629, 509720>>

RECURSIVE Pow2(_)
Pow2(n) == IF n = 0 THEN 1 ELSE 2 * Pow2(n - 1)

\* 2^(-h/halfLifeHours) in millionths, h a whole number of hours
DecayAtHour(h, halfLifeHours) ==
  IF h \div halfLifeHours >= 20 THEN 0
  ELSE HalfLifeTable[((h % halfLifeHours) * 36) \div halfLifeHours + 1]
         \div Pow2(h \div halfLifeHours)

\* Math.exp(-Math.log(2) * (ageHours / halfLifeHours)) in millionths, with
\* ageHours = delta / 3600: the value at the whole hours, a straight line
\* between them
ExpDecay(delta, halfLifeHours) ==
  LET h == delta \div 3600
      lo == DecayAtHour(h, halfLifeHours)
      hi == DecayAtHour(h + 1, halfLifeHours)
  IN lo - ((lo - hi) * (delta % 3600)) \div 3600

\* recencyWeightFromTs(ts, nowTs, halfLifeHours): ts is a whole number here
\* (the result of timestampFromPayload), so toInt(ts) is ts
recencyWeightFromTsAt(ts, now, halfLifeHours) ==
  LET base == ts
      delta == Max(now - base, 0)
  IN IF base = 0 THEN 0
     ELSE IF delta <= 0 THEN 1000000
     ELSE IF halfLifeHours <= 0 THEN 1000000
     ELSE ExpDecay(delta, halfLifeHours)

\* recencyWeightFromTs with a half-life of a day
recencyWeightFromTsDay(ts, now) == recencyWeightFromTsAt(ts, now, 24)

recencyWeightFromTs(ts, now) == recencyWeightFromTsAt(ts, now, HALF_LIFE_HOURS)

\* combinedScoreAt without the clamp of the vector score
combinedScoreNoClamp(vectorScore, recencyW, bias) ==
  LET rw == Max(Min(recencyW, 1200000), 0)
      b == Max(Min(bias, 90), 0)
  IN (100 - b) * vectorScore + b * rw

\* combinedScore(vectorScore, recencyW, bias): (1 - b) * vs + b * rw
combinedScoreAt(vectorScore, recencyW, bias) ==
  LET vs == Max(vectorScore, 0)
      rw == Max(Min(recencyW, 1200000), 0)
      b == Max(Min(bias, 90), 0)
  IN (100 - b) * vs + b * rw

combinedScore(vectorScore, recencyW) ==
  combinedScoreAt(vectorScore, recencyW, RECENCY_WEIGHT)

\* parseDate6 taking date_to for the first second of its day
parseDate6StartOfDay(d, end) ==
  IF Falsy(d) THEN Null
  ELSE IF IsBareDate(d.s) THEN DateSeconds(d.s, 0, 0, 0)
  ELSE Null

\* parseDate of step_6
parseDate6(d, end) ==
  IF Falsy(d) THEN Null
  ELSE IF IsBareDate(d.s)
    THEN (IF end THEN DateSeconds(d.s, 23, 59, 59) ELSE DateSeconds(d.s, 0, 0, 0))
  ELSE IF IsDateTime(d.s)
    THEN LET t == DateSeconds(d.s, Num(d.s, 12, 13), Num(d.s, 15, 16), Num(d.s, 18, 19))
         IN IF t.t = "nan" THEN Null ELSE t
  ELSE Null

\* inDateRange that looks at date_from alone
inDateRangeFromOnly(ts, f) ==
  LET gte == parseDate6(Get(f, "date_from"), FALSE)
  IN IF ts = 0 THEN TRUE
     ELSE IF ~Falsy(gte) /\ ts < gte.n THEN FALSE
     ELSE TRUE

\* inDateRange(ts, f)
inDateRange(ts, f) ==
  LET gte == parseDate6(Get(f, "date_from"), FALSE)
      lte == parseDate6(Get(f, "date_to"), TRUE)
  IN IF ts = 0 THEN TRUE
     ELSE IF ~Falsy(gte) /\ ts < gte.n THEN FALSE
     ELSE IF ~Falsy(lte) /\ ts > lte.n THEN FALSE
     ELSE TRUE

\* timestampFromPayload(payload)
timestampFromPayload(payload) ==
  toInt(OrElse(OrElse(Get(payload, "published_at_ts"), Get(payload, "indexed_at_ts")),
               Int_(0)))

\* Object.prototype.hasOwnProperty.call(payload, k)
HasOwn(payload, k) == payload.t = "object" /\ k \in DOMAIN payload.o

DateFieldKeys == {"published_at", "indexed_at", "published_at_ts", "indexed_at_ts"}

\* pickFields that keeps the whole payload
pickFieldsWhole(payload, desired) ==
  IF payload.t = "object" THEN payload ELSE EmptyObj

\* pickFields(payload, desired): the desired own keys, and the date keys
\* whose value is defined
pickFields(payload, desired) ==
  LET keys == {k \in desired : HasOwn(payload, k)} \cup
                {k \in DateFieldKeys : Get(payload, k) # Undef}
  IN Obj([k \in keys |-> Get(payload, k)])

\* String(text).split(/\s+/).join(' ')
CollapseWs(s) ==
  LET kept == SelectSeq([i \in 1..Len(s) |-> i],
                        LAMBDA i : ~(IsWs(s[i]) /\ i > 1 /\ IsWs(s[i - 1])))
  IN [k \in 1..Len(kept) |-> IF IsWs(s[kept[k]]) THEN " " ELSE s[kept[k]]]

\* makeSnippet(text, limit); "hellip" is the ellipsis character
makeSnippetAt(text, limit) ==
  IF Falsy(text) THEN <<>>
  ELSE LET one == CollapseWs(ToStr(text))
       IN IF Len(one) <= limit THEN one
          ELSE TrimRight(SubSeq(one, 1, limit)) \o <<"hellip">>

makeSnippet(text) == makeSnippetAt(text, 320)

\* Number(pt?.score || 0) when finite, else 0, in millionths
vectorScoreOf(pt) ==
  LET score == OrElse(Get(pt, "score"), Int_(0))
  IN CASE score.t = "int" -> score.n * 1000000
       [] score.t = "real" -> score.n
       [] score.t = "float" -> 2500000
       [] score.t = "string" -> StrToInt(score.s) * 1000000
       [] OTHER -> 0

\* String(pt?.id ?? '')
idOf(pt) ==
  LET id == Get(pt, "id")
  IN IF id.t \in {"undefined", "null"} THEN <<>> ELSE ToStr(id)

\* the callback of points.map in normalizePointsFromResponse
normalizePoint(pt, now) ==
  LET payload == OrElse(Get(pt, "payload"), EmptyObj)
      ts == timestampFromPayload(payload)
      vectorScore == vectorScoreOf(pt)
      recency == recencyWeightFromTs(ts, now)
      combined == combinedScore(vectorScore, recency)
      isChunk == HasOwn(payload, "chunk_ix")
  IN [id |-> idOf(pt), payload |-> payload, vector_score |-> vectorScore,
      recency_weight |-> recency, combined_score |-> combined, timestamp |-> ts,
      kind |-> IF isChunk THEN "chunk" ELSE "article"]

\* pointsOf without the field points
pointsOfScoredOnly(result) ==
  IF result.t = "array" THEN result.a
  ELSE IF Get(result, "scored_points").t = "array" THEN Get(result, "scored_points").a
  ELSE <<>>

\* the list of raw points of a response: result itself, result.scored_points
\* or result.points
pointsOf(result) ==
  IF result.t = "array" THEN result.a
  ELSE IF Get(result, "scored_points").t = "array" THEN Get(result, "scored_points").a
  ELSE IF Get(result, "points").t = "array" THEN Get(result, "points").a
  ELSE <<>>

normalizePointsFromResponse(resp, now) ==
  LET result == Get(resp, "result")
  IN IF Falsy(result) THEN <<>>
     ELSE LET points == pointsOf(result)
          IN [i \in 1..Len(points) |-> normalizePoint(points[i], now)]

\* the comparators: a negative number puts a first
byCombinedThenTsDesc(a, b) ==
  IF b.combined_score # a.combined_score THEN b.combined_score - a.combined_score
  ELSE b.timestamp - a.timestamp

byTsDesc(a, b) == b.timestamp - a.timestamp

\* UTF-16 code units of the characters of the model
CharCode(c) ==
  CASE c = " " -> 32 [] c = "A" -> 65 [] c = "B" -> 66 [] c = "a" -> 97
    [] c = "b" -> 98 [] OTHER -> 48

\* the default order of Array.prototype.sort: by code units
RECURSIVE StrLess(_, _)
StrLess(x, y) ==
  IF Len(y) = 0 THEN FALSE
  ELSE IF Len(x) = 0 THEN TRUE
  ELSE IF Head(x) # Head(y) THEN CharCode(Head(x)) < CharCode(Head(y))
  ELSE StrLess(Tail(x), Tail(y))

byString(a, b) ==
  IF StrLess(ToStr(a), ToStr(b)) THEN -1 ELSE IF StrLess(ToStr(b), ToStr(a)) THEN 1 ELSE 0

\* (a, b) => (b.ts - a.ts) || (b.score - a.score)
byTsThenScoreDesc(a, b) == IF b.ts - a.ts # 0 THEN b.ts - a.ts ELSE b.score - a.score

\* Array.prototype.sort with one of the comparators, given by its name. The
\* sort is stable: x goes after the elements that do not come after it
Compare(cmp, a, b) ==
  CASE cmp = "byCombinedThenTsDesc" -> byCombinedThenTsDesc(a, b)
    [] cmp = "byTsDesc" -> byTsDesc(a, b)
    [] cmp = "byTsThenScoreDesc" -> byTsThenScoreDesc(a, b)
    [] OTHER -> byString(a, b)

RECURSIVE InsertSorted(_, _, _)
InsertSorted(x, s, cmp) ==
  IF Len(s) = 0 THEN <<x>>
  ELSE IF Compare(cmp, Head(s), x) <= 0 THEN <<Head(s)>> \o InsertSorted(x, Tail(s), cmp)
  ELSE <<x>> \o s

RECURSIVE SortBy(_, _)
SortBy(s, cmp) ==
  IF Len(s) = 0 THEN <<>>
  ELSE InsertSorted(s[Len(s)], SortBy(SubSeq(s, 1, Len(s) - 1), cmp), cmp)

\* arr.slice(0, end)
SliceTo(arr, end) ==
  LET e == IF end < 0 THEN Max(Len(arr) + end, 0) ELSE Min(end, Len(arr))
  IN SubSeq(arr, 1, e)

\* serializeResult(hit, fields): scores and timestamp are deleted when falsy
serializeResult(hit, fields) ==
  [id |-> hit.id,
   hasScores |-> ~(hit.vector_score = 0 /\ hit.recency_weight = 0
                     /\ hit.combined_score = 0),
   vector |-> hit.vector_score, recency |-> hit.recency_weight,
   combined |-> hit.combined_score,
   hasTimestamp |-> hit.timestamp # 0, timestamp |-> hit.timestamp,
   payload |-> pickFields(hit.payload, fields)]

serializeAll(hits, fields) == [i \in 1..Len(hits) |-> serializeResult(hits[i], fields)]

\* hits.filter((h) => inDateRange(h.timestamp, f))
filterByDate(hits, f) == SelectSeq(hits, LAMBDA h : inDateRange(h.timestamp, f))

\* allPoints.filter((p) => p.kind === kind)
pointsOfKind(points, kind) == SelectSeq(points, LAMBDA p : p.kind = kind)

LatestFields == {"title", "url", "site", "author", "published_at"}
ArticleHitFields == {"title", "url", "site", "author", "published_at"}
ChunkHitFields == {"url", "content", "site", "author", "published_at"}

\* String(p.payload?.site || '').trim()
siteOf(p) == Trim(ToStr(OrElse(Get(p.payload, "site"), Str(<<>>))))

NoContext ==
  [present |-> FALSE, total_chunks |-> 0, total_tokens |-> 0, unique_sites |-> <<>>,
   articles |-> <<>>]

\* the output item: hits of the hit lists, groups of latest_by_site, data and
\* context of summarize and backgrounder, groups and context of
\* compare_viewpoints
Output(intent, shape, hits, groups, context) ==
  [intent |-> intent, shape |-> shape, hits |-> hits, groups |-> groups,
   context |-> context]

NoOutput == Output("", "", <<>>, <<>>, NoContext)

\* latestBySite keeping every point of a site
latestBySiteWhole(points, perSite, filters) ==
  LET eligible == SelectSeq(pointsOfKind(points, "article"),
                    LAMBDA p : Len(siteOf(p)) > 0 /\ inDateRange(p.timestamp, filters))
      sites == {siteOf(eligible[i]) : i \in 1..Len(eligible)}
      group(site) == SortBy(SelectSeq(eligible, LAMBDA p : siteOf(p) = site), "byTsDesc")
  IN Output("latest_by_site", "groups", <<>>,
            [site \in sites |-> serializeAll(group(site), LatestFields)],
            NoContext)

latestBySite(points, perSite, filters) ==
  LET per == OrNum(perSite, 5)
      eligible == SelectSeq(pointsOfKind(points, "article"),
                    LAMBDA p : Len(siteOf(p)) > 0 /\ inDateRange(p.timestamp, filters))
      sites == {siteOf(eligible[i]) : i \in 1..Len(eligible)}
      group(site) == SortBy(SelectSeq(eligible, LAMBDA p : siteOf(p) = site), "byTsDesc")
  IN Output("latest_by_site", "groups", <<>>,
            [site \in sites |-> serializeAll(SliceTo(group(site), per), LatestFields)],
            NoContext)

\* hitsArticles sorting by timestamp alone
hitsArticlesByTs(points, limit, filters) ==
  LET selected == SliceTo(SortBy(filterByDate(pointsOfKind(points, "article"), filters),
                                 "byTsDesc"),
                          OrNum(limit, DEFAULT_ARTICLE_TOPK))
  IN Output("search_articles", "hits", serializeAll(selected, ArticleHitFields), <<>>,
            NoContext)

hitsArticles(points, limit, filters) ==
  LET selected == SliceTo(SortBy(filterByDate(pointsOfKind(points, "article"), filters),
                                 "byCombinedThenTsDesc"),
                          OrNum(limit, DEFAULT_ARTICLE_TOPK))
  IN Output("search_articles", "hits", serializeAll(selected, ArticleHitFields), <<>>,
            NoContext)

\* 'abc'.toLowerCase() over the letters of the model
ToLower(s) ==
  [i \in 1..Len(s) |-> IF s[i] = "A" THEN "a" ELSE IF s[i] = "B" THEN "b" ELSE s[i]]

\* hay.includes(needle)
Includes(hay, needle) ==
  \E i \in 1..(Len(hay) - Len(needle) + 1) :
    SubSeq(hay, i, i + Len(needle) - 1) = needle

\* String(h.payload?.content || '').toLowerCase().includes(needle)
contentIncludes(h, needle) ==
  Includes(ToLower(ToStr(OrElse(Get(h.payload, "content"), Str(<<>>)))), needle)

\* hitsChunks without the exact-phrase filter
hitsChunksNoPhrase(points, limit, filters, exactPhrase, queryText) ==
  LET selected == SliceTo(SortBy(filterByDate(pointsOfKind(points, "chunk"), filters),
                                 "byCombinedThenTsDesc"),
                          OrNum(limit, DEFAULT_CHUNK_TOPK))
  IN Output("search_chunks", "hits", serializeAll(selected, ChunkHitFields), <<>>,
            NoContext)

hitsChunks(points, limit, filters, exactPhrase, queryText) ==
  LET dated == filterByDate(pointsOfKind(points, "chunk"), filters)
      needle == ToLower(queryText)
      phrased == IF exactPhrase /\ Len(queryText) > 0
                 THEN SelectSeq(dated, LAMBDA h : contentIncludes(h, needle))
                 ELSE dated
      selected == SliceTo(SortBy(phrased, "byCombinedThenTsDesc"),
                          OrNum(limit, DEFAULT_CHUNK_TOPK))
  IN Output("search_chunks", "hits", serializeAll(selected, ChunkHitFields), <<>>,
            NoContext)

filterOnlyArticles(points, limit, filters) ==
  LET selected == SliceTo(SortBy(filterByDate(pointsOfKind(points, "article"), filters),
                                 "byTsDesc"),
                          OrNum(limit, DEFAULT_ARTICLE_TOPK))
  IN Output("filter_only_articles", "hits", serializeAll(selected, ArticleHitFields),
            <<>>, NoContext)

filterOnlyChunks(points, limit, filters) ==
  LET selected == SliceTo(SortBy(filterByDate(pointsOfKind(points, "chunk"), filters),
                                 "byTsDesc"),
                          OrNum(limit, DEFAULT_CHUNK_TOPK))
  IN Output("filter_only_chunks", "hits", serializeAll(selected, ChunkHitFields),
            <<>>, NoContext)

\* String(h.payload?.article_id || h.payload?.doc_id || h.payload?.url || '').trim()
articleIdOf(h) ==
  Trim(ToStr(OrElse(OrElse(OrElse(Get(h.payload, "article_id"), Get(h.payload, "doc_id")),
                           Get(h.payload, "url")),
                    Str(<<>>))))

\* the keys of a Map, in the order of their first insertion
RECURSIVE DistinctInOrder(_)
DistinctInOrder(s) ==
  IF Len(s) = 0 THEN <<>>
  ELSE LET front == DistinctInOrder(SubSeq(s, 1, Len(s) - 1))
           x == s[Len(s)]
       IN IF \E i \in 1..Len(front) : front[i] = x THEN front ELSE Append(front, x)

RECURSIVE SumSeq(_)
SumSeq(s) == IF Len(s) = 0 THEN 0 ELSE Head(s) + SumSeq(Tail(s))

\* the chunk of an ArticleContext
contextChunk(c) ==
  [chunk_ix |-> Get(c.payload, "chunk_ix"), score |-> c.vector_score,
   recency |-> c.recency_weight, snippet |-> makeSnippet(OrElse(Get(c.payload, "content"), Str(<<>>)))]

\* the entry that buildContextFromChunks ranks for an article, topChunks being
\* the best chunks of the article
rankedEntry(articleId, topChunks) ==
  LET meta == topChunks[1].payload
  IN [key |-> articleId, score |-> topChunks[1].combined_score,
      ts |-> topChunks[1].timestamp,
      entry |-> [id |-> articleId, site |-> Get(meta, "site"), url |-> Get(meta, "url"),
                 title |-> OrElse(Get(meta, "article_title"), Get(meta, "title")),
                 description |-> OrElse(Get(meta, "article_description"),
                                        Get(meta, "description")),
                 author |-> Get(meta, "author"),
                 published_at |-> Get(meta, "published_at"),
                 chunks |-> [i \in 1..Len(topChunks) |-> contextChunk(topChunks[i])]]]

\* rankedArticle keeping every chunk of the article
rankedArticleWhole(articleId, arr) ==
  rankedEntry(articleId, SortBy(arr, "byCombinedThenTsDesc"))

\* arr.sort(byCombinedThenTsDesc); arr.slice(0, perArticle), perArticle being 3
rankedArticle(articleId, arr) ==
  rankedEntry(articleId, SliceTo(SortBy(arr, "byCombinedThenTsDesc"), 3))

\* the chunks that buildContextFromChunks groups: in the date range, with an
\* article identity
contextChunks(points, filters) ==
  SelectSeq(pointsOfKind(points, "chunk"),
            LAMBDA h : inDateRange(h.timestamp, filters) /\ Len(articleIdOf(h)) > 0)

\* one ranked entry for each article identity, in the order of the Map
rankedArticles(eligible, ids) ==
  [i \in 1..Len(ids) |->
     rankedArticle(ids[i], SelectSeq(eligible, LAMBDA h : articleIdOf(h) = ids[i]))]

\* Math.max(Math.floor(len / 4), 1) of each chunk of the article
chunkTokens(a) == [i \in 1..Len(a.chunks) |-> Max(Len(a.chunks[i].snippet) \div 4, 1)]

\* articles.map((a) => a.site).filter(Boolean), made a Set and sorted
uniqueSites(withSite) ==
  SortBy(DistinctInOrder([i \in 1..Len(withSite) |-> withSite[i].site]), "byString")

\* the statistics and the articles that buildContextFromChunks returns, null
\* when there is no article
contextOf(articles) ==
  IF Len(articles) = 0 THEN NoContext
  ELSE [present |-> TRUE,
        total_chunks |-> SumSeq([i \in 1..Len(articles) |-> Len(articles[i].chunks)]),
        total_tokens |-> SumSeq([i \in 1..Len(articles) |-> SumSeq(chunkTokens(articles[i]))]),
        unique_sites |-> uniqueSites(SelectSeq(articles, LAMBDA a : ~Falsy(a.site))),
        articles |-> articles]

\* top.map((x) => x.entry)
entriesOf(top) == [i \in 1..Len(top) |-> top[i].entry]

\* articlesRanked.sort(...).slice(0, maxArticles).map((x) => x.entry)
topArticles(articlesRanked, maxArticles) ==
  entriesOf(SliceTo(SortBy(articlesRanked, "byTsThenScoreDesc"), maxArticles))

\* the ranked entries of the chunks
rankedOf(eligible) ==
  rankedArticles(eligible,
                 DistinctInOrder([i \in 1..Len(eligible) |-> articleIdOf(eligible[i])]))

buildContextFromChunks(points, limitArticles, filters) ==
  contextOf(topArticles(rankedOf(contextChunks(points, filters)),
                        Max(OrNum(limitArticles, DEFAULT_ARTICLE_TOPK), 5)))

\* compareGroup without the cap of perGroup
compareGroupWhole(selected, site, perGroup) ==
  serializeAll(SelectSeq(selected, LAMBDA h : siteOf(h) = site), ArticleHitFields)

\* the sites of compareViewpoints, each with at most perGroup results
compareGroup(selected, site, perGroup) ==
  LET own == SelectSeq(selected, LAMBDA h : siteOf(h) = site)
  IN serializeAll(SubSeq(own, 1, Min(Len(own), Max(perGroup, 0))), ArticleHitFields)

compareViewpoints(points, limit, filters) ==
  LET selected == SortBy(filterByDate(pointsOfKind(points, "article"), filters),
                         "byCombinedThenTsDesc")
      perGroup == OrNum(limit, DEFAULT_ARTICLE_TOPK)
      sites == {siteOf(selected[i]) : i \in 1..Len(selected)} \ {<<>>}
  IN Output("compare_viewpoints", "grouped_data", <<>>,
            [site \in sites |-> compareGroup(selected, site, perGroup)],
            buildContextFromChunks(points, perGroup, filters))

backgrounderLike(intent, points, limit, filters) ==
  Output(intent, "data", hitsArticles(points, limit, filters).hits, <<>>,
         buildContextFromChunks(points, limit, filters))

\* the switch on the intent
assemble(j, exactPhrase, points) ==
  CASE j.intent = "latest_by_site" -> latestBySite(points, j.per_site, j.filters)
    [] j.intent = "filter_only_articles" ->
         filterOnlyArticles(points, OrNum(j.topK, DEFAULT_ARTICLE_TOPK), j.filters)
    [] j.intent = "filter_only_chunks" ->
         filterOnlyChunks(points, OrNum(j.topK, DEFAULT_CHUNK_TOPK), j.filters)
    [] j.intent = "search_articles" ->
         hitsArticles(points, OrNum(j.topK, DEFAULT_ARTICLE_TOPK), j.filters)
    [] j.intent = "search_chunks" ->
         hitsChunks(points, OrNum(j.topK, DEFAULT_CHUNK_TOPK), j.filters, exactPhrase,
                    j.queryText)
    [] j.intent = "summarize" ->
         backgrounderLike(j.intent, points, OrNum(j.topK, DEFAULT_ARTICLE_TOPK), j.filters)
    [] j.intent = "backgrounder" ->
         backgrounderLike(j.intent, points, OrNum(j.topK, DEFAULT_BACKGROUND_TOPK), j.filters)
    [] j.intent = "compare_viewpoints" ->
         compareViewpoints(points, OrNum(j.topK, DEFAULT_ARTICLE_TOPK), j.filters)
    [] OTHER -> Output(j.intent, "hits", <<>>, <<>>, NoContext)

\* for (const item of allItems) allPoints = allPoints.concat(...)
RECURSIVE collectPoints(_, _)
collectPoints(its, now) ==
  IF Len(its) = 0 THEN <<>>
  ELSE normalizePointsFromResponse(OrElse(Head(its), EmptyObj), now)
         \o collectPoints(Tail(its), now)

----------------------------------------------------------------------------
(* Inputs                                                                  *)

Alphabet == {"a", " "}

RECURSIVE SeqsUpTo(_, _)
SeqsUpTo(S, n) ==
  IF n = 0 THEN {<<>>}
  ELSE LET R == SeqsUpTo(S, n - 1)
       IN R \cup {Append(r, x) : r \in {q \in R : Len(q) = n - 1}, x \in S}

Strings == SeqsUpTo(Alphabet, MaxStrLen)

\* what a filter list may hold
ItemVals == {Null, Undef, Int_(7)} \cup {Str(s) : s \in Strings}

\* what a list field of the filters may be
ListFieldVals ==
  {Arr(l) : l \in SeqsUpTo(ItemVals, MaxListLen)}
    \cup {Str(<<"a", " ">>), Str(<<>>), Int_(5), Int_(0), EmptyObj, Null}

\* what date_from / date_to may be
DateVals ==
  {Undef, Str(<<>>), Str(<<" ", " ">>), Str(<<"a">>), Str(<<" ", "a", " ">>),
   Str(<<"2", "0", "2", "4", "-", "0", "1", "-", "0", "1">>),
   Str(<<" ", "2", "0", "2", "4", "-", "0", "1", "-", "0", "2">>),
   Str(<<"2", "0", "2", "4", "-", "1", "3", "-", "0", "1">>),
   Int_(5), Int_(0), EmptyObj}

OneItem == Arr(<<Str(<<"a">>)>>)

\* filters with one list field drawn from ListFieldVals
ListFilters ==
  {Obj([kk \in {k} \cup K2 |-> IF kk = k THEN v ELSE OneItem]) :
     k \in ListKeys, v \in ListFieldVals, K2 \in {{}, {"lang"}}}

\* filters with both dates drawn from DateVals
DateFilters ==
  {Obj([kk \in {"date_from", "date_to"} \cup K2 |->
          IF kk = "date_from" THEN df ELSE IF kk = "date_to" THEN dt ELSE OneItem]) :
     df \in DateVals, dt \in DateVals, K2 \in {{}, {"site"}}}

FewFilters ==
  {Undef, Str(<<"a">>), EmptyObj,
   Obj([kk \in {"site"} |-> Arr(<<Str(<<"a">>), Str(<<"a">>)>>)]),
   Obj([kk \in {"lang", "date_from"} |->
          IF kk = "lang" THEN OneItem
          ELSE Str(<<"2", "0", "2", "4", "-", "0", "1", "-", "0", "1">>)])}

Intents ==
  {"latest_by_site", "filter_only_articles", "filter_only_chunks",
   "search_articles", "search_chunks", "summarize", "backgrounder",
   "compare_viewpoints"}

\* intents the planner does not know, the missing intent among them
OtherIntents == {"", "delete_all"}

TopKVals == {Int_(n) : n \in -2..MaxTopK} \cup {Undef, Float, Str(<<"a">>)}

PerSiteVals == {Int_(n) : n \in -1..2} \cup {Undef, Float}

QueryVals == {Undef, Str(<<" ">>), Str(<<"a", " ">>)}

TwoSites == Obj([kk \in {"site"} |-> Arr(<<Str(<<"a">>), Str(<<"a", "a">>)>>)])

\* plans that vary the filters
FilterInputs ==
  [intent : {"latest_by_site"}, query : {Str(<<"a">>)}, exact_phrase : {FALSE},
   topK : {Int_(3)}, per_site : {Undef}, filters : ListFilters \cup DateFilters]

\* plans that vary the intent and topK
TopKInputs ==
  [intent : Intents \cup OtherIntents, query : {Str(<<" ">>), Str(<<"a", " ">>)},
   exact_phrase : BOOLEAN, topK : TopKVals, per_site : {Undef},
   filters : {EmptyObj, TwoSites}]

\* plans that vary per_site
PerSiteInputs ==
  [intent : {"latest_by_site", "compare_viewpoints"}, query : QueryVals,
   exact_phrase : {FALSE}, topK : {Undef, Int_(3)}, per_site : PerSiteVals,
   filters : FewFilters]

Inputs == FilterInputs \cup TopKInputs \cup PerSiteInputs

\* what the embeddings node may hand over
EmbeddingVals == {Undef, Arr(<<>>), Arr(<<Float>>)}

NoErr == [name |-> "", message |-> "", intent |-> ""]

\* topK values of the planner output, those around the upper clamp among them
DslTopKVals == TopKVals \cup {Int_(49), Int_(50), Int_(51), Int_(1000)}

PhraseVals ==
  {Undef, Str(<<"a">>), Str(<<"\"">>), Str(<<"\"", "a", " ", "a", "\"">>),
   Str(<<"a", "'", "a">>)}

KeywordVals == {Undef, Str(<<" ">>), Str(<<"a", " ">>)}

DslFilters ==
  {Undef, EmptyObj,
   Obj([kk \in {"site", "lang"} |-> IF kk = "site" THEN Arr(<<>>) ELSE OneItem]),
   Obj([kk \in {"site", "date_to"} |->
          IF kk = "site" THEN OneItem
          ELSE Str(<<"2", "0", "2", "4", "-", "0", "1", "-", "0", "1">>)])}

\* planner outputs that vary the intent, topK and the mode
DslTopKInputs ==
  [intent : Intents \cup OtherIntents, topK : DslTopKVals,
   mode : {"", "lexical", "hybrid"}, semantic : {FALSE}, phrase : {Undef},
   keywords : {Str(<<"a">>)}, filters : {EmptyObj}, return_index : {""},
   return_fields : {<<>>}]

\* planner outputs that vary the query text, the mode and the filters
DslTextInputs ==
  [intent : {"search_articles", "search_chunks"}, topK : {Int_(3)},
   mode : {"", "lexical"}, semantic : BOOLEAN, phrase : PhraseVals,
   keywords : KeywordVals, filters : DslFilters, return_index : {"", "chunks"},
   return_fields : {<<>>, <<"url">>}]

DslInputs == DslTopKInputs \cup DslTextInputs

----------------------------------------------------------------------------
(* Inputs of step_6: plans, and the points that Qdrant returns for them    *)

\* 00:00:00 UTC of 2024-01-01 and of 2024-02-29, which are 19723 and 19782
\* days after 1970-01-01
Day1 == 19723 * 86400
Day2 == 19782 * 86400

\* Math.floor(Date.now() / 1000) of the run: 2024-01-03T00:00:00Z
Now == Day1 + 2 * 86400

\* 2024-01-01T12:00:00Z, 36 hours before Now
Noon == Day1 + 43200

RawPoint(id, score, payload) ==
  Obj([k \in {"id", "score", "payload"} |->
         CASE k = "id" -> id [] k = "score" -> score [] OTHER -> payload])

\* a point of the articles collection
ArticlePt(id, site, ts, score) ==
  RawPoint(Str(id), Real(score),
           Obj([k \in {"site", "title", "published_at_ts"} |->
                  CASE k = "site" -> Str(site)
                    [] k = "title" -> Str(<<"a">>)
                    [] OTHER -> Int_(ts)]))

\* a point of the chunks collection
ChunkPt(id, articleId, content, ts, score) ==
  RawPoint(Str(id), Real(score),
           Obj([k \in {"article_id", "chunk_ix", "content", "site", "published_at_ts"} |->
                  CASE k = "article_id" -> Str(articleId)
                    [] k = "chunk_ix" -> Int_(0)
                    [] k = "content" -> Str(content)
                    [] k = "site" -> Str(<<"a">>)
                    [] OTHER -> Int_(ts)]))

\* the lists of at most n points of a pool
PointLists(pool, n) == SeqsUpTo(pool, n)

\* a plan of the planner
PlanOf(intent, query, exact, topK, perSite, filters) ==
  [intent |-> intent, query |-> query, exact_phrase |-> exact, topK |-> topK,
   per_site |-> perSite, filters |-> filters]

OneDay ==
  Obj([k \in {"date_from", "date_to"} |->
         Str(<<"2", "0", "2", "4", "-", "0", "1", "-", "0", "1">>)])

Scenario(p, points) == [plan |-> p, points |-> points, odd |-> FALSE]

\* a plan whose responses may be malformed
OddScenario(p, points) == [plan |-> p, points |-> points, odd |-> TRUE]

\* search_chunks with and without exact_phrase
ChunkPool ==
  {ChunkPt(<<"1">>, <<"a">>, <<"a", "b">>, Noon, 900000),
   ChunkPt(<<"2">>, <<"a">>, <<"B", "A">>, Noon + 3600, 500000),
   ChunkPt(<<"3">>, <<"b">>, <<"b">>, Noon, 700000),
   ChunkPt(<<"4">>, <<"b">>, <<"A">>, Noon + 86400, 900000)}

ChunkScenarios ==
  {Scenario(PlanOf("search_chunks", Str(q), e, k, Undef, f), pts) :
     q \in {<<"a">>, <<" ">>}, e \in BOOLEAN,
     k \in {Int_(1), Int_(2), Undef}, f \in {EmptyObj, OneDay},
     pts \in PointLists(ChunkPool, MaxPoints)}

\* latest_by_site: two points of site a, one of site b outside the day
\* 2024-01-01, one without a site
LatestPool ==
  {ArticlePt(<<"1">>, <<"a">>, Noon, 900000),
   ArticlePt(<<"2">>, <<"a">>, Noon + 3600, 500000),
   ArticlePt(<<"3">>, <<" ", "b">>, Noon + 86400, 700000),
   ArticlePt(<<"4">>, <<" ">>, Noon, 700000)}

\* filters.site holds the same site twice
SameSiteTwice == Obj([k \in {"site"} |-> Arr(<<Str(<<"a">>), Str(<<"a">>)>>)])

\* ten points: 2 of site a, 7 of site b, 1 of site c
TenPoints ==
  [i \in 1..10 |->
     ArticlePt(<<Digit(i - 1)>>,
               IF i \in {1, 5} THEN <<"a">> ELSE IF i = 10 THEN <<"c">> ELSE <<"b">>,
               Noon + 60 * ((i * 7) % 10), 500000)]

LatestScenarios ==
  {Scenario(PlanOf("latest_by_site", Undef, FALSE, Undef, n, f), pts) :
     n \in {Undef, Int_(1), Int_(2), Int_(-1)}, f \in {EmptyObj, OneDay, SameSiteTwice},
     pts \in PointLists(LatestPool, MaxPoints)}
  \cup {Scenario(PlanOf("latest_by_site", Undef, FALSE, Undef, Int_(5), EmptyObj), TenPoints)}

\* the chunks of summarize and compare_viewpoints: two of article a, one of
\* article b outside the day 2024-01-01, one without an article identity
ContextPool ==
  {ChunkPt(<<"1">>, <<"a">>, <<"a", "b">>, Noon, 900000),
   ChunkPt(<<"2">>, <<"a">>, <<"b">>, Noon + 3600, 500000),
   ChunkPt(<<"3">>, <<" ", "b">>, <<"a">>, Noon + 86400, 700000),
   ChunkPt(<<"4">>, <<>>, <<"a">>, Noon, 700000)}

\* five chunks: 4 of article a, 1 of article b
FiveChunks ==
  [i \in 1..5 |->
     ChunkPt(<<Digit(i)>>, IF i = 3 THEN <<"b">> ELSE <<"a">>, <<"a">>,
             Noon + 60 * ((i * 3) % 5), 100000 * i)]

\* seven chunks of seven articles
SevenArticles ==
  [i \in 1..7 |->
     ChunkPt(<<Digit(i)>>, <<Digit(i)>>, <<"a">>, Noon + 60 * ((i * 3) % 7), 500000)]

ContextScenarios ==
  {Scenario(PlanOf(intent, Str(<<"a">>), FALSE, k, Undef, f), pts) :
     intent \in {"summarize", "compare_viewpoints"}, k \in {Undef, Int_(1)},
     f \in {EmptyObj, OneDay}, pts \in PointLists(ContextPool, MaxPoints)}
  \cup {Scenario(PlanOf("backgrounder", Str(<<"a">>), FALSE, k, Undef, EmptyObj), pts) :
          k \in {Undef, Int_(1), Int_(6), Int_(-1)}, pts \in {FiveChunks, SevenArticles}}

DayOf(start) ==
  Obj([k \in {"date_from", "date_to"} |->
         IF start = Day1 THEN Str(<<"2", "0", "2", "4", "-", "0", "1", "-", "0", "1">>)
         ELSE Str(<<"2", "0", "2", "4", "-", "0", "2", "-", "2", "9">>)])

\* points around the day that begins at start, and a point without timestamp
DayPool(start) ==
  {ArticlePt(<<"1">>, <<"a">>, start - 1, 500000),
   ArticlePt(<<"2">>, <<"a">>, start, 500000),
   ArticlePt(<<"3">>, <<"a">>, start + 43200, 500000),
   ArticlePt(<<"4">>, <<"a">>, start + 86399, 500000),
   ArticlePt(<<"5">>, <<"a">>, start + 86401, 500000),
   ArticlePt(<<"6">>, <<"a">>, 0, 500000)}

DayScenarios ==
  {Scenario(PlanOf("filter_only_articles", Undef, FALSE, Undef, Undef, DayOf(start)), pts) :
     start \in {Day1}, pts \in PointLists(DayPool(Day1), MaxPoints)}
  \cup {Scenario(PlanOf("filter_only_articles", Undef, FALSE, Undef, Undef, DayOf(start)), pts) :
          start \in {Day2}, pts \in PointLists(DayPool(Day2), MaxPoints)}

\* malformed points: null, no field at all, a null payload and a score that is
\* not a number, an infinite score and a timestamp that is not a number, a
\* score NaN and a timestamp with a fraction, a negative score and no id, a
\* payload that is a string
OddPool ==
  {Null,
   EmptyObj,
   RawPoint(Int_(7), Str(<<"a">>), Null),
   RawPoint(Str(<<"1">>), Infinity,
            Obj([k \in {"published_at_ts", "indexed_at_ts"} |->
                   IF k = "published_at_ts" THEN Str(<<"a">>) ELSE Int_(Noon)])),
   RawPoint(Str(<<"2">>), NaN,
            Obj([k \in {"chunk_ix", "indexed_at_ts"} |->
                   IF k = "chunk_ix" THEN Null ELSE Real(Noon) ])),
   RawPoint(Undef, Real(-200000), Obj([k \in {"published_at_ts"} |-> Int_(Noon)])),
   RawPoint(Str(<<"3">>), Int_(1), Str(<<"a">>))}

OddScenarios ==
  {OddScenario(PlanOf("search_articles", Str(<<"a">>), FALSE, Undef, Undef, EmptyObj), pts) :
     pts \in PointLists(OddPool, MaxPoints)}

\* points of several ages: in the future, of age zero, a second, an hour, 36
\* hours, 36 hours and a second, 72 hours, 30 days, and without timestamp
AgePool ==
  {ArticlePt(<<Digit(i)>>, <<"a">>,
             <<Now + 3600, Now, Now - 1, Now - 3600, Now - 129600, Now - 129601,
               Now - 259200, Now - 30 * 86400, 0>>[i], 500000) : i \in 1..9}

AgeScenarios ==
  {Scenario(PlanOf("search_articles", Str(<<"a">>), FALSE, Undef, Undef, EmptyObj), pts) :
     pts \in PointLists(AgePool, MaxPoints - 1)}

\* articles: two with the same score and timestamp, a more recent one with a
\* lower score, one outside the day 2024-01-01, and a chunk
ArticlePool ==
  {ArticlePt(<<"1">>, <<"a">>, Noon, 900000),
   ArticlePt(<<"2">>, <<"b">>, Noon, 900000),
   ArticlePt(<<"3">>, <<"a">>, Noon + 3600, 500000),
   ArticlePt(<<"4">>, <<"a">>, Noon + 86400, 900000),
   ChunkPt(<<"5">>, <<"a">>, <<"a">>, Noon, 900000)}

ArticleScenarios ==
  {Scenario(PlanOf(intent, Str(<<"a">>), FALSE, k, Undef, f), pts) :
     intent \in {"search_articles", "filter_only_articles"},
     k \in {Int_(1), Int_(2), Undef}, f \in {EmptyObj, OneDay},
     pts \in PointLists(ArticlePool, MaxPoints)}

\* the points of compare_viewpoints: two articles of site a, the older with the
\* higher score, an article of site b outside the day 2024-01-01, an article
\* without site, and a chunk of article a
ViewpointPool ==
  {ArticlePt(<<"1">>, <<"a">>, Noon, 900000),
   ArticlePt(<<"2">>, <<"a">>, Noon + 3600, 500000),
   ArticlePt(<<"3">>, <<"b">>, Noon + 86400, 700000),
   ArticlePt(<<"4">>, <<" ">>, Noon, 700000),
   ChunkPt(<<"5">>, <<"a">>, <<"a">>, Noon, 900000)}

ViewpointScenarios ==
  {Scenario(PlanOf("compare_viewpoints", Str(<<"a">>), FALSE, k, Undef, f), pts) :
     k \in {Undef, Int_(1), Int_(2), Int_(-1)}, f \in {EmptyObj, OneDay},
     pts \in PointLists(ViewpointPool, MaxPoints)}

\* a text of len characters: words of six letters, and a run of two spaces
\* where Gap holds
LongText(len, Gap(_)) ==
  [i \in 1..len |-> IF Gap(i) THEN " " ELSE IF i % 7 = 0 THEN " " ELSE "a"]

\* chunks with long contents: of 320 characters once collapsed; of 330, where
\* the character 320 and the next are inside a word; of 330, where the
\* character 321 is a space; of 330, where the character 320 is a space
SnippetPool ==
  {ChunkPt(<<"1">>, <<"a">>, LongText(321, LAMBDA i : i \in {7, 8}), Noon, 900000),
   ChunkPt(<<"2">>, <<"a">>, LongText(330, LAMBDA i : FALSE), Noon, 900000),
   ChunkPt(<<"3">>, <<"a">>, LongText(330, LAMBDA i : i = 321), Noon, 900000),
   ChunkPt(<<"4">>, <<"a">>, LongText(330, LAMBDA i : i = 320), Noon, 900000)}

SnippetScenarios ==
  {Scenario(PlanOf("summarize", Str(<<"a">>), FALSE, Undef, Undef, EmptyObj), <<p>>) :
     p \in SnippetPool}

\* articles of site a: two with the same score and timestamp, one more recent
TiePool ==
  {ArticlePt(<<"1">>, <<"a">>, Noon, 900000),
   ArticlePt(<<"2">>, <<"a">>, Noon, 900000),
   ArticlePt(<<"3">>, <<"a">>, Noon + 3600, 900000)}

\* latest_by_site with two requests for the site a and one place for each site
TieScenarios ==
  {Scenario(PlanOf("latest_by_site", Undef, FALSE, Undef, Int_(1), SameSiteTwice),
            <<p, q>>) : p, q \in TiePool}

\* date_from = 2024-02-29 is later than date_to = 2024-01-01
Inverted ==
  Obj([k \in {"date_from", "date_to"} |->
         Get(DayOf(IF k = "date_from" THEN Day2 ELSE Day1), k)])

\* articles and chunks before, between and after the two dates, and without
\* timestamp
InvertedPool ==
  {ArticlePt(<<"1">>, <<"a">>, Day1 - 86400, 900000),
   ArticlePt(<<"2">>, <<"a">>, Day1 + 86400, 900000),
   ArticlePt(<<"3">>, <<"a">>, Day2 + 86400, 900000),
   ArticlePt(<<"4">>, <<"a">>, 0, 900000),
   ChunkPt(<<"5">>, <<"a">>, <<"a">>, Day1 + 86400, 900000),
   ChunkPt(<<"6">>, <<"a">>, <<"a">>, 0, 900000)}

InvertedScenarios ==
  {Scenario(PlanOf(intent, Str(<<"a">>), FALSE, Undef, Undef, Inverted), pts) :
     intent \in Intents, pts \in PointLists(InvertedPool, MaxPoints - 1)}

\* the keys of a payload of the backend
RichKeys ==
  {"title", "url", "site", "author", "published_at", "indexed_at", "published_at_ts",
   "indexed_at_ts", "lang", "description", "content"}

\* a point whose payload has every key of RichKeys, and those of a chunk when
\* it is one
RichPt(id, chunk) ==
  RawPoint(Str(id), Real(900000),
           Obj([k \in RichKeys \cup (IF chunk THEN {"chunk_ix", "article_id"} ELSE {}) |->
                  CASE k \in {"published_at_ts", "indexed_at_ts"} -> Int_(Noon)
                    [] k = "chunk_ix" -> Int_(0)
                    [] OTHER -> Str(<<"a">>)]))

PayloadScenarios ==
  {Scenario(PlanOf(intent, Str(<<"a">>), FALSE, Undef, Undef, EmptyObj), pts) :
     intent \in Intents,
     pts \in {<<RichPt(<<"1">>, FALSE)>>, <<RichPt(<<"2">>, TRUE)>>,
              <<RichPt(<<"1">>, FALSE), RichPt(<<"2">>, TRUE)>>}}

\* a chunk with the identity fields given (Undef when it has not the field)
IdChunk(id, articleId, docId, url, site, ts, score) ==
  LET ident == [k \in {"article_id", "doc_id", "url"} |->
                  CASE k = "article_id" -> articleId [] k = "doc_id" -> docId
                    [] OTHER -> url]
  IN RawPoint(Str(id), Real(score),
       Obj([k \in {x \in DOMAIN ident : ident[x] # Undef}
                    \cup {"chunk_ix", "content", "site", "published_at_ts"} |->
              CASE k \in DOMAIN ident -> ident[k]
                [] k = "chunk_ix" -> Int_(0)
                [] k = "content" -> Str(<<"a">>)
                [] k = "site" -> Str(site)
                [] OTHER -> Int_(ts)]))

\* chunks named by article_id, by doc_id alone, by url alone (as recent as the
\* first, with a lower score), by a blank article_id and a doc_id, by nothing,
\* and by article_id and doc_id
IdentityPool ==
  {IdChunk(<<"1">>, Str(<<"a">>), Undef, Undef, <<"b">>, Noon, 900000),
   IdChunk(<<"2">>, Undef, Str(<<"b">>), Undef, <<"a">>, Noon + 3600, 500000),
   IdChunk(<<"3">>, Undef, Undef, Str(<<"A">>), <<"a">>, Noon, 500000),
   IdChunk(<<"4">>, Str(<<" ">>), Str(<<"b">>), Undef, <<"a">>, Noon, 700000),
   IdChunk(<<"5">>, Undef, Undef, Undef, <<"a">>, Noon, 700000),
   IdChunk(<<"6">>, Str(<<"a">>), Str(<<"b">>), Undef, <<>>, Noon + 7200, 100000)}

\* seven chunks of seven articles: the two oldest are of site B, the most
\* recent of site b, the others of site a
SevenSites ==
  [i \in 1..7 |->
     IdChunk(<<Digit(i)>>, Str(<<Digit(i)>>), Undef, Undef,
             IF i \in {5, 7} THEN <<"B">> ELSE IF i = 2 THEN <<"b">> ELSE <<"a">>,
             Noon + 60 * ((i * 3) % 7), 500000)]

IdentityScenarios ==
  {Scenario(PlanOf("summarize", Str(<<"a">>), FALSE, Undef, Undef, EmptyObj), pts) :
     pts \in PointLists(IdentityPool, MaxPoints)}
  \cup {Scenario(PlanOf("backgrounder", Str(<<"a">>), FALSE, Int_(2), Undef, EmptyObj),
                 SevenSites)}

\* the identifier of the i-th point of a long list
TwoDigits(i) == <<Digit(i \div 10), Digit(i % 10)>>

\* twelve articles, and twelve chunks, of different timestamps
TwelveArticles == [i \in 1..12 |-> ArticlePt(TwoDigits(i), <<"a">>, Noon + 60 * i, 500000)]
TwelveChunks ==
  [i \in 1..12 |-> ChunkPt(TwoDigits(i), <<"a">>, <<"a">>, Noon + 60 * i, 500000)]

\* more points than the default limit, for the four hit lists
ManyScenarios ==
  {Scenario(PlanOf(intent, Str(<<"a">>), FALSE, k, Undef, EmptyObj),
            IF intent \in {"search_chunks", "filter_only_chunks"} THEN TwelveChunks
            ELSE TwelveArticles) :
     intent \in {"search_articles", "search_chunks", "filter_only_articles",
                 "filter_only_chunks"},
     k \in {Undef, Int_(2), Int_(-1)}}

Scenarios ==
  ManyScenarios \cup IdentityScenarios \cup PayloadScenarios \cup InvertedScenarios \cup TieScenarios \cup SnippetScenarios \cup ViewpointScenarios \cup ArticleScenarios \cup ChunkScenarios \cup LatestScenarios \cup ContextScenarios \cup DayScenarios
    \cup OddScenarios \cup AgeScenarios

\* the response of Qdrant that carries the points, in one of its shapes
Response(shape, points) ==
  Obj([k \in {"result"} |->
         IF shape = "flat" THEN Arr(points)
         ELSE Obj([kk \in {shape} |-> Arr(points)])])

Shapes == {"flat", "scored_points", "points"}

\* malformed responses: no json, no result, a null result, a result without
\* points, a result that is a string, points that are null
OddResponses ==
  {Undef, EmptyObj, Obj([k \in {"result"} |-> Null]),
   Obj([k \in {"result"} |-> EmptyObj]), Obj([k \in {"result"} |-> Str(<<"a">>)]),
   Obj([k \in {"result"} |-> Obj([kk \in {"points"} |-> Null])])}

\* the responses to the request of a plan whose responses may be malformed
OddDeliveries(points) ==
  {<<Response("flat", points)>>} \cup {<<r>> : r \in OddResponses}

\* the responses to n >= 2 requests: the first cut points go to the first, the
\* others to the second
Split(sh, points, cut, n) ==
  <<Response(sh, SubSeq(points, 1, cut)),
    Response(sh, SubSeq(points, cut + 1, Len(points)))>> \o
    [i \in 1..(n - 2) |-> Response(sh, <<>>)]

\* the responses to n requests: in every shape when one response carries all
\* the points, cut in every way between the first two in the flat shape
Deliveries(points, n) ==
  IF n = 1 THEN {<<Response(sh, points)>> : sh \in Shapes}
  ELSE {Split(sh, points, Len(points), n) : sh \in Shapes}
       \cup {Split("flat", points, cut, n) : cut \in 0..Len(points)}

----------------------------------------------------------------------------
(* The Qdrant workflow                                                     *)

Init ==
  /\ \/ pc = "step_1" /\ input \in Inputs
     \/ pc = "prepare_plan" /\ input \in DslInputs
  /\ plan = NoPlan
  /\ s2 = NoS2
  /\ qFilter = NoFilter
  /\ embedding = Undef
  /\ requests = <<>>
  /\ err = NoErr
  /\ pp = NoPp
  /\ dsl = NoDsl
  /\ allItems = <<>>
  /\ nowTs = 0
  /\ allPoints = <<>>
  /\ output = NoOutput

Step1 ==
  /\ pc = "step_1"
  /\ plan' = normalizePlan(input)
  /\ pc' = "step_2"
  /\ UNCHANGED <<input, s2, qFilter, embedding, requests, err, pp, dsl,
               allItems, nowTs, allPoints, output>>

Step2 ==
  /\ pc = "step_2"
  /\ IF sanitize(plan.filters).t = "throw"
     THEN /\ pc' = "failed"
          /\ err' = [name |-> "TypeError", message |-> "", intent |-> ""]
          /\ s2' = s2
     ELSE /\ pc' = "step_3"
          /\ err' = err
          /\ s2' = sanitizePlan(plan)
  /\ UNCHANGED <<input, plan, qFilter, embedding, requests, pp, dsl,
               allItems, nowTs, allPoints, output>>

\* step_3, the embeddings node (an external service)
Step3 ==
  /\ pc = "step_3"
  /\ embedding' \in EmbeddingVals
  /\ pc' = "step_4"
  /\ UNCHANGED <<input, plan, s2, qFilter, requests, err, pp, dsl,
               allItems, nowTs, allPoints, output>>

Step4 ==
  /\ pc = "step_4"
  /\ qFilter' = buildFilter(s2.filters)
  /\ pc' = "step_5"
  /\ UNCHANGED <<input, plan, s2, embedding, requests, err, pp, dsl,
               allItems, nowTs, allPoints, output>>

Step5 ==
  /\ pc = "step_5"
  /\ requests' = buildRequests(step4Item(s2, embedding, qFilter), plan.exact_phrase)
  /\ qFilter' = qFilterAfter(step4Item(s2, embedding, qFilter))
  /\ pc' = "done"
  /\ UNCHANGED <<input, plan, s2, embedding, err, pp, dsl,
               allItems, nowTs, allPoints, output>>

----------------------------------------------------------------------------
(* The OpenSearch workflow                                                 *)

PreparePlan ==
  /\ pc = "prepare_plan"
  /\ pp' = preparePlan(input)
  /\ pc' = "dsl_embed"
  /\ UNCHANGED <<input, plan, s2, qFilter, embedding, requests, err, dsl,
               allItems, nowTs, allPoints, output>>

\* the embeddings node between prepare_plan and build_dsl
DslEmbed ==
  /\ pc = "dsl_embed"
  /\ embedding' \in EmbeddingVals
  /\ pc' = "build_dsl"
  /\ UNCHANGED <<input, plan, s2, qFilter, requests, err, pp, dsl,
               allItems, nowTs, allPoints, output>>

BuildDsl ==
  /\ pc = "build_dsl"
  /\ LET r == buildDsl(pp, embedding)
     IN IF r.thrown
        THEN /\ pc' = "dsl_failed"
             /\ err' = [name |-> "Error", message |-> r.message, intent |-> r.intent]
             /\ dsl' = dsl
        ELSE /\ pc' = "dsl_done"
             /\ err' = err
             /\ dsl' = r
  /\ UNCHANGED <<input, plan, s2, qFilter, embedding, requests, pp,
               allItems, nowTs, allPoints, output>>

Next == Step1 \/ Step2 \/ Step3 \/ Step4 \/ Step5 \/ PreparePlan \/ DslEmbed \/ BuildDsl

Spec == Init /\ [][Next]_vars

----------------------------------------------------------------------------
(* The Qdrant workflow from the HTTP node on: the requests of step_5 are   *)
(* sent, and step_6 assembles the result from the responses                *)

InitAssemble ==
  /\ input \in {sc.plan : sc \in Scenarios}
  /\ plan = normalizePlan(input)
  /\ s2 = sanitizePlan(plan)
  /\ embedding = Arr(<<Float>>)
  /\ qFilter = buildFilter(s2.filters)
  /\ requests = buildRequests(step4Item(s2, embedding, qFilter), plan.exact_phrase)
  /\ pc = "http"
  /\ err = NoErr
  /\ pp = NoPp
  /\ dsl = NoDsl
  /\ allItems = <<>>
  /\ nowTs = 0
  /\ allPoints = <<>>
  /\ output = NoOutput

\* the HTTP node: one response for each request
Http ==
  /\ pc = "http"
  /\ Len(requests) > 0
  /\ \E sc \in Scenarios :
       /\ sc.plan = input
       /\ allItems' \in IF sc.odd THEN OddDeliveries(sc.points)
                         ELSE Deliveries(sc.points, Len(requests))
  /\ nowTs' = Now
  /\ pc' = "step_6"
  /\ UNCHANGED <<input, plan, s2, qFilter, embedding, requests, err, pp, dsl,
                 allPoints, output>>

Step6 ==
  /\ pc = "step_6"
  /\ allPoints' = collectPoints(allItems, nowTs)
  /\ output' = assemble(s2, plan.exact_phrase, allPoints')
  /\ pc' = "assembled"
  /\ UNCHANGED <<input, plan, s2, qFilter, embedding, requests, err, pp, dsl,
                 allItems, nowTs>>

NextAssemble == Http \/ Step6

SpecAssemble == InitAssemble /\ [][NextAssemble]_vars

----------------------------------------------------------------------------
(* Claims about steps 1 and 2                                              *)

Step2Done == pc \in {"step_3", "step_4", "step_5", "done"}

\* a string without leading or trailing whitespace, and not empty
TrimmedNonEmpty(v) ==
  /\ v.t = "string"
  /\ Len(v.s) > 0
  /\ ~IsWs(v.s[1])
  /\ ~IsWs(v.s[Len(v.s)])

\* C1: sanitizing the sanitized filters gives the sanitized filters again.
C1_SanitizeIdempotent ==
  Step2Done => sanitize(s2.filters) = s2.filters

\* a raw list held a null or a string that is blank or untrimmed; the
\* sanitizer has changed them and kept a field
C1_Witness ==
  /\ Step2Done
  /\ \E k \in ListKeys :
       /\ Get(plan.filters, k).t = "array"
       /\ \E i \in 1..Len(Get(plan.filters, k).a) :
            LET it == Get(plan.filters, k).a[i]
            IN it.t = "null" \/ (it.t = "string" /\ ~TrimmedNonEmpty(it))
       /\ k \in DOMAIN s2.filters.o
  /\ s2.filters # plan.filters

\* C2: every key of the sanitized filters is a filter key that maps to a
\* non-empty list of trimmed non-empty strings (list fields) or to a trimmed
\* non-empty string (dates); nothing is kept as [] or ''.
C2_NoEmptyField ==
  Step2Done =>
    /\ s2.filters.t = "object"
    /\ DOMAIN s2.filters.o \subseteq FilterKeys
    /\ \A k \in DOMAIN s2.filters.o :
         LET v == s2.filters.o[k]
         IN IF k \in ListKeys
            THEN /\ v.t = "array"
                 /\ Len(v.a) > 0
                 /\ \A i \in 1..Len(v.a) : TrimmedNonEmpty(v.a[i])
            ELSE TrimmedNonEmpty(v)

\* a raw list that cleans to nothing is absent from the output, next to a
\* field that is kept
C2_Witness ==
  /\ Step2Done
  /\ \E k \in ListKeys :
       /\ Get(plan.filters, k).t = "array"
       /\ Len(Get(plan.filters, k).a) > 0
       /\ k \notin DOMAIN s2.filters.o
  /\ DOMAIN s2.filters.o # {}

\* C3: the sanitizer returns for every filter object, never raising.
C3_SanitizerTotal ==
  pc = "step_2" => sanitize(plan.filters).t # "throw"

\* C4: topK and per_site are integers >= 0 after steps 1 and 2.
C4_NonNegativeCounts ==
  Step2Done => s2.topK >= 0 /\ s2.per_site >= 0

----------------------------------------------------------------------------
(* Claims about prepare_plan, build_dsl and step_5                         *)

Prepared == pc \in {"dsl_embed", "build_dsl", "dsl_done", "dsl_failed"}

DslIntents == {"latest_by_site", "search_articles", "search_chunks", "summarize"}

SearchIntents == {"search_articles", "search_chunks"}

\* C5 as claimed: topK is 5 unless the input is a positive integer, which is
\* clamped into [1,50].
C5_DefaultUnlessPositive ==
  Prepared =>
    /\ pp.topK \in 1..50
    /\ pp.topK = IF input.topK.t = "int" /\ input.topK.n > 0
                 THEN (IF input.topK.n > 50 THEN 50 ELSE input.topK.n)
                 ELSE 5

\* C5 amended: topK is 5 when the input topK is not an integer; an integer is
\* clamped into [1,50], so zero and negative integers give 1; topK is always
\* an integer in [1,50].
C5_ClampedTopK ==
  Prepared =>
    /\ pp.topK \in 1..50
    /\ pp.plan.topK = pp.topK
    /\ pp.topK = IF input.topK.t # "int" THEN 5
                 ELSE IF input.topK.n < 1 THEN 1
                 ELSE IF input.topK.n > 50 THEN 50
                 ELSE input.topK.n

\* a negative integer topK has been clamped up to 1
C5_Witness ==
  /\ Prepared
  /\ input.topK.t = "int"
  /\ input.topK.n < 0
  /\ pp.topK = 1

C7_NoFallback ==
  /\ pc \in {"dsl_done", "dsl_failed"} /\ pp.plan.intent \in SearchIntents
       /\ pp.plan.mode # "lexical" /\ Len(pp.query_text) > 0
       /\ ~(embedding.t = "array" /\ Len(embedding.a) > 0)
     => pc = "dsl_failed" /\ dsl = NoDsl
  /\ pc = "done" /\ s2.intent \in SearchIntents /\ Len(s2.queryText) > 0
       /\ ~(embedding.t = "array" /\ Len(embedding.a) > 0)
     => requests = <<>>

\* C7 amended: in build_dsl a search intent whose mode is not lexical fails
\* with an error and returns no request when the embedding is missing, not an
\* array or empty; step_5, which reads no mode, emits exactly one scroll
\* request on the intent's collection in that case.
C7_MissingEmbedding ==
  /\ pc \in {"dsl_done", "dsl_failed"} /\ pp.plan.intent \in SearchIntents
       /\ pp.plan.mode # "lexical" /\ Len(pp.query_text) > 0
       /\ ~(embedding.t = "array" /\ Len(embedding.a) > 0)
     => /\ pc = "dsl_failed"
        /\ err.name = "Error"
        /\ dsl = NoDsl
  /\ pc = "done" /\ s2.intent \in SearchIntents /\ Len(s2.queryText) > 0
       /\ ~(embedding.t = "array" /\ Len(embedding.a) > 0)
     => /\ Len(requests) = 1
        /\ requests[1].op = "scroll"
        /\ requests[1].collection =
             (IF s2.intent = "search_chunks" THEN "chunks" ELSE "articles")
        /\ err = NoErr

\* build_dsl has failed on a hybrid chunk search that came with an empty
\* embedding
C7_Witness ==
  /\ pc = "dsl_failed"
  /\ pp.plan.intent = "search_chunks"
  /\ pp.plan.mode = "hybrid"
  /\ Len(pp.query_text) > 0
  /\ embedding = Arr(<<>>)

VectorDone(intents) ==
  /\ pc = "done"
  /\ s2.intent \in intents
  /\ embedding.t = "array" /\ Len(embedding.a) > 0
  /\ Len(s2.queryText) > 0

\* C8 as claimed: one point search with limit max(K,1) x (2 if exact phrase
\* else 1) x 4.
C8_ChunkLimitMaxK ==
  VectorDone({"search_chunks"}) =>
    /\ Len(requests) = 1
    /\ requests[1].op = "search"
    /\ requests[1].limit =
         (IF s2.topK > 1 THEN s2.topK ELSE 1) * (IF plan.exact_phrase THEN 2 ELSE 1) * 4

\* C8 amended: one point search on the chunks collection with limit
\* max(B x (2 if exact phrase else 1), 1) x 4, where B is K when K is not 0
\* and the default 10 when K is 0.
C8_ChunkLimit ==
  VectorDone({"search_chunks"}) =>
    /\ Len(requests) = 1
    /\ requests[1].op = "search"
    /\ requests[1].collection = "chunks"
    /\ LET B == IF s2.topK = 0 THEN 10 ELSE s2.topK
           w == IF plan.exact_phrase THEN 2 * B ELSE B
       IN requests[1].limit = (IF w > 1 THEN w ELSE 1) * 4

\* topK 0 with an exact phrase has given the limit 10 x 2 x 4
C8_Witness ==
  /\ VectorDone({"search_chunks"})
  /\ s2.topK = 0
  /\ plan.exact_phrase
  /\ requests[1].limit = 80

\* C9 as claimed: articles search with limit max(K,1) x 4, then chunks search
\* with limit max(max(K,10) x 4, 20) x 6 x 4.
C9_ContextLimitsMaxK ==
  VectorDone({"summarize", "backgrounder"}) =>
    /\ Len(requests) = 2
    /\ requests[1].op = "search" /\ requests[1].collection = "articles"
    /\ requests[2].op = "search" /\ requests[2].collection = "chunks"
    /\ requests[1].limit = (IF s2.topK > 1 THEN s2.topK ELSE 1) * 4
    /\ requests[2].limit =
         LET k10 == IF s2.topK > 10 THEN s2.topK ELSE 10
         IN (IF k10 * 4 > 20 THEN k10 * 4 ELSE 20) * 6 * 4

\* C9 amended: articles search, then chunks search; with B = K when K is not
\* 0 and the default 20 when K is 0, the articles limit is max(B,1) x 4 and
\* the chunks limit is max(B x 4, 20) x 6 x 4.
C9_ContextLimits ==
  VectorDone({"summarize", "backgrounder"}) =>
    /\ Len(requests) = 2
    /\ requests[1].op = "search" /\ requests[1].collection = "articles"
    /\ requests[2].op = "search" /\ requests[2].collection = "chunks"
    /\ LET B == IF s2.topK = 0 THEN 20 ELSE s2.topK
       IN /\ requests[1].limit = (IF B > 1 THEN B ELSE 1) * 4
          /\ requests[2].limit = (IF B * 4 > 20 THEN B * 4 ELSE 20) * 6 * 4

\* topK 7 has given the limits 28 and 28 x 24
C9_Witness ==
  /\ VectorDone({"backgrounder"})
  /\ s2.topK = 7
  /\ requests[1].limit = 28
  /\ requests[2].limit = 672

\* the sites of the sanitized filters
SanitizedSites ==
  IF "site" \in DOMAIN s2.filters.o THEN s2.filters.o["site"].a ELSE <<>>

\* C10: latest_by_site emits one scroll request per value of filters.site,
\* one request when there is none; every limit is 3 x P, P being per_site or
\* 5 when per_site is 0; the filter of the request of site s has a condition
\* that restricts site to s alone.
C10_LatestBySiteFanOut ==
  pc = "done" /\ s2.intent = "latest_by_site" =>
    LET sites == SanitizedSites
        P == IF s2.per_site = 0 THEN 5 ELSE s2.per_site
    IN /\ Len(requests) = (IF Len(sites) = 0 THEN 1 ELSE Len(sites))
       /\ \A i \in 1..Len(requests) :
            /\ requests[i].op = "scroll"
            /\ requests[i].collection = "articles"
            /\ requests[i].limit = 3 * P
       /\ \A i \in 1..Len(sites) :
            \E c \in 1..Len(requests[i].filter.must) :
              LET cl == requests[i].filter.must[c]
              IN cl.type = "match" /\ cl.key = "site" /\ cl.any = <<sites[i]>>

\* two different sites have given two requests, each restricted to its site
C10_Witness ==
  /\ pc = "done"
  /\ s2.intent = "latest_by_site"
  /\ Len(SanitizedSites) = 2
  /\ SanitizedSites[1] # SanitizedSites[2]
  /\ Len(requests) = 2
  /\ requests[1].filter # requests[2].filter

----------------------------------------------------------------------------
(* The assembled result                                                    *)

Assembled(intents) == pc = "assembled" /\ s2.intent \in intents

\* the number of the points that satisfy Test
CountOf(points, Test(_)) == Cardinality({i \in 1..Len(points) : Test(points[i])})

\* C11: with exact_phrase set and a non-empty query text, search_chunks returns
\* no more hits than it returns for the same points, filters and topK without
\* exact_phrase; the content of every hit contains the query text, whatever the
\* case of the letters; and the hits are as many as K allows of the chunks that
\* pass the date check and contain the text (the text is looked for after the
\* date check and before the cut to K).
C11_ExactPhraseNarrows ==
  (Assembled({"search_chunks"}) /\ plan.exact_phrase /\ Len(s2.queryText) > 0) =>
    LET K == OrNum(s2.topK, DEFAULT_CHUNK_TOPK)
        loose == hitsChunks(allPoints, K, s2.filters, FALSE, s2.queryText)
        needle == ToLower(s2.queryText)
        Kept(p) == /\ p.kind = "chunk"
                   /\ inDateRange(p.timestamp, s2.filters)
                   /\ contentIncludes(p, needle)
    IN /\ Len(output.hits) <= Len(loose.hits)
       /\ \A i \in 1..Len(output.hits) :
            Includes(ToLower(ToStr(Get(output.hits[i].payload, "content"))), needle)
       /\ K >= 1 => Len(output.hits) = Min(K, CountOf(allPoints, Kept))

\* search_chunks with exact_phrase returned a hit, dropped a chunk that the
\* search without exact_phrase returns, and a chunk fell out of the date range
C11_Witness ==
  /\ Assembled({"search_chunks"}) /\ plan.exact_phrase /\ Len(s2.queryText) > 0
  /\ Len(output.hits) >= 1
  /\ Len(output.hits) <
       Len(hitsChunks(allPoints, OrNum(s2.topK, DEFAULT_CHUNK_TOPK), s2.filters, FALSE,
                      s2.queryText).hits)
  /\ \E i \in 1..Len(allPoints) : ~inDateRange(allPoints[i].timestamp, s2.filters)
  /\ \E i \in 1..Len(output.hits) :
       ToStr(Get(output.hits[i].payload, "content")) # ToLower(ToStr(Get(output.hits[i].payload, "content")))

\* the article points that latest_by_site groups under the site
EligibleAt(p, site) ==
  /\ p.kind = "article"
  /\ siteOf(p) = site
  /\ inDateRange(p.timestamp, s2.filters)

EligibleSites ==
  {siteOf(allPoints[i]) : i \in {x \in 1..Len(allPoints) : allPoints[x].kind = "article"
                                    /\ inDateRange(allPoints[x].timestamp, s2.filters)}}
    \ {<<>>}

EligibleCount(site) ==
  Cardinality({i \in 1..Len(allPoints) : EligibleAt(allPoints[i], site)})

\* the group of the site holds size eligible points of the site, the most
\* recent ones, by descending timestamp
MostRecentGroup(site, size) ==
  /\ site \in DOMAIN output.groups
  /\ LET g == output.groups[site]
     IN /\ Len(g) = size
        /\ \A i \in 1..Len(g) :
             /\ \E x \in 1..Len(allPoints) :
                  /\ EligibleAt(allPoints[x], site)
                  /\ allPoints[x].id = g[i].id
                  /\ allPoints[x].timestamp = g[i].timestamp
             /\ i > 1 => g[i - 1].timestamp >= g[i].timestamp
             /\ Cardinality({x \in 1..Len(allPoints) :
                               /\ EligibleAt(allPoints[x], site)
                               /\ allPoints[x].timestamp > g[i].timestamp}) <= i - 1

\* C12 as stated: every site with an eligible point (article-kind, non-empty
\* site, passing the date check) has a group of min(perSite, eligible points)
\* members, the most recent eligible points by descending timestamp.
C12_GroupSizeMinPerSite ==
  Assembled({"latest_by_site"}) =>
    \A site \in EligibleSites :
      MostRecentGroup(site, Min(s2.per_site, EligibleCount(site)))

\* C12: with P = perSite, or 5 when perSite is 0, every site with n >= 1
\* eligible points has a group that holds its most recent eligible points by
\* descending timestamp: min(P, n) of them when P >= 1, and n - |P| of them
\* (none when n <= |P|) when perSite is negative; there is no other group.
C12_LatestGroups ==
  Assembled({"latest_by_site"}) =>
    LET P == OrNum(s2.per_site, 5)
    IN /\ DOMAIN output.groups = EligibleSites
       /\ \A site \in EligibleSites :
            MostRecentGroup(site, IF P >= 1 THEN Min(P, EligibleCount(site))
                                  ELSE Max(EligibleCount(site) + P, 0))

\* perSite = 5 and sites with 2, 7 and 1 eligible points: groups of 2, 5 and 1
C12_Witness ==
  /\ Assembled({"latest_by_site"})
  /\ s2.per_site = 5
  /\ EligibleCount(<<"a">>) = 2 /\ EligibleCount(<<"b">>) = 7 /\ EligibleCount(<<"c">>) = 1
  /\ Len(output.groups[<<"a">>]) = 2
  /\ Len(output.groups[<<"b">>]) = 5
  /\ Len(output.groups[<<"c">>]) = 1

ContextIntents == {"summarize", "backgrounder", "compare_viewpoints"}

\* the limit that the switch hands to buildContextFromChunks
RequestedLimit ==
  OrNum(s2.topK, IF s2.intent = "backgrounder" THEN DEFAULT_BACKGROUND_TOPK
                 ELSE DEFAULT_ARTICLE_TOPK)

\* the chunk points in the date range
DatedChunk(p) == p.kind = "chunk" /\ inDateRange(p.timestamp, s2.filters)

\* the article identities of the chunks in the date range
ArticleIds ==
  {articleIdOf(allPoints[i]) : i \in {x \in 1..Len(allPoints) : DatedChunk(allPoints[x])}}
    \ {<<>>}

ChunksOf(articleId) ==
  Cardinality({i \in 1..Len(allPoints) :
                 DatedChunk(allPoints[i]) /\ articleIdOf(allPoints[i]) = articleId})

\* C13: the context of summarize, backgrounder and compare_viewpoints has one
\* ArticleContext for each distinct article identity of the chunks in the date
\* range, up to max(requested limit, 5) of them; each holds between 1 and 3
\* chunks (3, or all the chunks of the article when fewer); total_chunks is the
\* sum of the chunks of the articles; there is no context when there is no
\* article.
C13_ContextPerArticle ==
  Assembled(ContextIntents) =>
    LET articles == output.context.articles
    IN /\ Len(articles) = Min(Cardinality(ArticleIds), Max(RequestedLimit, 5))
       /\ output.context.present = (Len(articles) > 0)
       /\ \A i \in 1..Len(articles) :
            /\ articles[i].id \in ArticleIds
            /\ \A x \in 1..Len(articles) : articles[x].id = articles[i].id => x = i
            /\ Len(articles[i].chunks) \in 1..3
            /\ Len(articles[i].chunks) = Min(3, ChunksOf(articles[i].id))
       /\ output.context.total_chunks =
            SumSeq([i \in 1..Len(articles) |-> Len(articles[i].chunks)])

\* five chunks of two articles have given two entries, of 3 chunks and 1 chunk
C13_Witness ==
  /\ Assembled(ContextIntents)
  /\ Cardinality({i \in 1..Len(allPoints) : DatedChunk(allPoints[i])}) = 5
  /\ Cardinality(ArticleIds) = 2
  /\ Len(output.context.articles) = 2
  /\ output.context.total_chunks = 4

\* seven articles and a requested limit of 1: the context holds five of them
C13_WitnessCap ==
  /\ Assembled(ContextIntents)
  /\ Cardinality(ArticleIds) = 7
  /\ RequestedLimit = 1
  /\ Len(output.context.articles) = 5

\* date_from and date_to are the same bare date, of which start is the first
\* second
SameDay(start) ==
  /\ Get(s2.filters, "date_from") = Get(s2.filters, "date_to")
  /\ Get(s2.filters, "date_from") = Get(DayOf(start), "date_from")

\* the point is among the hits
InHits(p) == \E i \in 1..Len(output.hits) : output.hits[i].id = p.id

\* filter_only_articles lists every article that passes the date check: the
\* limit does not cut the list
ListsAllDated ==
  Assembled({"filter_only_articles"})
    /\ Len(allPoints) <= OrNum(s2.topK, DEFAULT_ARTICLE_TOPK)

\* step_4 and step_6 give date_from the first second of the day and date_to
\* its last second
SameBounds(start) ==
  /\ parseDate6(Get(s2.filters, "date_from"), FALSE) = Int_(start)
  /\ parseDate6(Get(s2.filters, "date_to"), TRUE) = Int_(start + 86399)
  /\ \E c \in 1..Len(qFilter.must) :
       /\ qFilter.must[c].type = "should_range"
       /\ qFilter.must[c].gte = Int_(start)
       /\ qFilter.must[c].lte = Int_(start + 86399)

\* C14 as stated: a bare date_from is the second 00:00:00 UTC of its day, a bare
\* date_to the second 23:59:59 UTC; step_4 and step_6 compute the same bounds;
\* with date_from = date_to = D a point passes the date check if and only if
\* its timestamp lies within the UTC day D.
C14_PassIffWithinDay ==
  \A start \in {Day1, Day2} :
    (ListsAllDated /\ SameDay(start)) =>
      /\ SameBounds(start)
      /\ \A i \in 1..Len(allPoints) :
           allPoints[i].kind = "article" =>
             (InHits(allPoints[i]) <=> allPoints[i].timestamp \in start..(start + 86399))

\* C14: the same, for the points that have a timestamp; a point without
\* timestamp (timestamp 0) passes the date check whatever the range.
C14_DayBounds ==
  \A start \in {Day1, Day2} :
    (ListsAllDated /\ SameDay(start)) =>
      /\ SameBounds(start)
      /\ \A i \in 1..Len(allPoints) :
           allPoints[i].kind = "article" =>
             IF allPoints[i].timestamp = 0 THEN InHits(allPoints[i])
             ELSE InHits(allPoints[i]) <=> allPoints[i].timestamp \in start..(start + 86399)

\* noon of the day passes, one second past the next midnight fails, a point
\* without timestamp passes
C14_Witness ==
  /\ ListsAllDated /\ SameDay(Day1)
  /\ \E i, j, k \in 1..Len(allPoints) :
       /\ allPoints[i].timestamp = Day1 + 43200 /\ InHits(allPoints[i])
       /\ allPoints[j].timestamp = Day1 + 86401 /\ ~InHits(allPoints[j])
       /\ allPoints[k].timestamp = 0 /\ InHits(allPoints[k])

\* the raw points that a response carries, none when it is malformed
CarriedBy(item) ==
  IF item.t # "object" \/ "result" \notin DOMAIN item.o THEN <<>>
  ELSE LET r == item.o["result"]
       IN IF r.t = "array" THEN r.a
          ELSE IF r.t # "object" THEN <<>>
          ELSE IF "scored_points" \in DOMAIN r.o THEN r.o["scored_points"].a
          ELSE IF "points" \in DOMAIN r.o THEN r.o["points"].a
          ELSE <<>>

\* the shape in which a well-formed response carries its points
ShapeOf(item) ==
  LET r == item.o["result"]
  IN IF r.t = "array" THEN "flat"
     ELSE IF "scored_points" \in DOMAIN r.o THEN "scored_points" ELSE "points"

\* C15: the scored points of step_6 are those that the same raw points give
\* when every response carries them as a flat list, as the field scored_points
\* or as the field points.
C15_ShapeIndependent ==
  pc = "assembled" =>
    \A sh \in Shapes :
      collectPoints([i \in 1..Len(allItems) |-> Response(sh, CarriedBy(allItems[i]))],
                    nowTs) = allPoints

\* two points or more came in the field points of a response
C15_Witness ==
  /\ pc = "assembled"
  /\ Len(allPoints) >= 2
  /\ ShapeOf(allItems[1]) = "points"
  /\ Len(CarriedBy(allItems[1])) >= 2

\* C16: step_6 normalizes every response, malformed ones too: each raw point
\* gives one scored point, of kind article or chunk, whose combined_score is
\* 0.65 x max(vector_score, 0) + 0.35 x clamp(recency_weight, 0, 1.2), the
\* combined score of its own two fields with the default bias.
C16_NormalizeTotal ==
  pc = "assembled" =>
    /\ Len(allPoints) = SumSeq([i \in 1..Len(allItems) |-> Len(CarriedBy(allItems[i]))])
    /\ \A i \in 1..Len(allPoints) :
         LET p == allPoints[i]
         IN /\ p.kind \in {"article", "chunk"}
            /\ p.combined_score =
                 65 * (IF p.vector_score > 0 THEN p.vector_score ELSE 0)
                   + 35 * (IF p.recency_weight > 1200000 THEN 1200000
                           ELSE IF p.recency_weight < 0 THEN 0 ELSE p.recency_weight)

\* a null point, a point with an infinite score and a point with a negative
\* score have been normalized
C16_Witness ==
  /\ pc = "assembled"
  /\ Len(allPoints) = 3
  /\ Len(CarriedBy(allItems[1])) = 3
  /\ \E i, j, k \in 1..3 :
       /\ CarriedBy(allItems[1])[i] = Null
       /\ Get(CarriedBy(allItems[1])[j], "score") = Infinity /\ allPoints[j].vector_score = 0
       /\ allPoints[k].vector_score < 0

\* a malformed response has given no point
C16_WitnessOdd ==
  /\ pc = "assembled"
  /\ allItems[1] \in OddResponses
  /\ allPoints = <<>>

\* C17: the recency weight of a scored point is 0 when it has no timestamp, 1
\* when its timestamp is the time of the run or later, 0.5 when it is exactly
\* 36 hours old; it lies between 0 and 1; and of two points with a timestamp,
\* the older one has no greater weight. (Weights are in millionths.)
C17_RecencyWeight ==
  pc = "assembled" =>
    \A i \in 1..Len(allPoints) :
      LET p == allPoints[i]
      IN /\ p.timestamp = 0 => p.recency_weight = 0
         /\ (p.timestamp # 0 /\ p.timestamp >= nowTs) => p.recency_weight = 1000000
         /\ nowTs - p.timestamp = 36 * 3600 => p.recency_weight = 500000
         /\ p.recency_weight \in 0..1000000
         /\ \A j \in 1..Len(allPoints) :
              (p.timestamp # 0 /\ allPoints[j].timestamp # 0
                 /\ p.timestamp <= allPoints[j].timestamp)
                => p.recency_weight <= allPoints[j].recency_weight

\* a point 36 hours old weighs 0.5, a point a second older weighs less and
\* more than nothing
C17_Witness ==
  /\ pc = "assembled"
  /\ \E i, j \in 1..Len(allPoints) :
       /\ nowTs - allPoints[i].timestamp = 36 * 3600
       /\ allPoints[i].recency_weight = 500000
       /\ nowTs - allPoints[j].timestamp = 36 * 3600 + 1
       /\ allPoints[j].recency_weight \in 1..499999

\* no two elements of the list have the same id
DistinctIds(list) ==
  \A i, j \in 1..Len(list) : list[i].id = list[j].id => i = j

\* no response carries a point twice
NoResponseRepeats ==
  \A x \in 1..Len(allItems) :
    LET raw == CarriedBy(allItems[x])
    IN \A i, j \in 1..Len(raw) : idOf(raw[i]) = idOf(raw[j]) => i = j

\* C18: when no response carries a point twice, no point id is twice in the
\* hits or in the group of a site, even if several responses of the fan-out
\* carry the same point.
C18_NoDuplicateIds ==
  (pc = "assembled" /\ NoResponseRepeats) =>
    /\ DistinctIds(output.hits)
    /\ \A site \in DOMAIN output.groups : DistinctIds(output.groups[site])

\* the must list that build_dsl makes of the sanitized filters has a clause
\* on the list field, or a bound for the date field
DslConstrains(field) ==
  LET must == makeFilters(s2.filters)
  IN \E c \in 1..Len(must) :
       CASE field = "date_from" -> must[c].type = "range" /\ must[c].gte # Undef
         [] field = "date_to" -> must[c].type = "range" /\ must[c].lte # Undef
         [] OTHER -> must[c].type = "terms" /\ must[c].key = resolveField(field)

\* the filter that step_4 makes of the sanitized filters has a condition on
\* the list field, or a bound for the date field
VectorConstrains(field) ==
  \E c \in 1..Len(qFilter.must) :
    CASE field = "date_from" ->
           qFilter.must[c].type = "should_range" /\ qFilter.must[c].gte # Undef
      [] field = "date_to" ->
           qFilter.must[c].type = "should_range" /\ qFilter.must[c].lte # Undef
      [] OTHER -> qFilter.must[c].type = "match" /\ qFilter.must[c].key = field

\* C19: for the sanitized filters of a plan, every filter field (site,
\* base_url, url, lang, author, article_id, date_from, date_to) constrains the
\* must list of the keyword-DSL request if and only if it constrains the
\* filter of the vector request.
C19_SameFilterSemantics ==
  pc \in {"step_5", "done"} =>
    \A field \in FilterKeys : DslConstrains(field) <=> VectorConstrains(field)

\* the article points in the date range
DatedArticle(p) == p.kind = "article" /\ inDateRange(p.timestamp, s2.filters)

\* the point comes before the hit in the order of the intent: by combined
\* score then timestamp for search_articles, by timestamp for
\* filter_only_articles
ComesBefore(p, hit) ==
  IF s2.intent = "search_articles"
  THEN \/ p.combined_score > hit.combined
       \/ p.combined_score = hit.combined /\ p.timestamp > hit.timestamp
  ELSE p.timestamp > hit.timestamp

\* C20: with K >= 1 (10 when topK is 0), the hits of search_articles and of
\* filter_only_articles are the first K of the article points in the date
\* range, in the order of the intent: there are min(K, n) hits, each is such a
\* point, no hit comes after a hit it should precede, fewer than i of the
\* points come before the i-th hit, and no hit is a chunk.
C20_ArticleHits ==
  (Assembled({"search_articles", "filter_only_articles"})
     /\ OrNum(s2.topK, DEFAULT_ARTICLE_TOPK) >= 1) =>
    LET K == OrNum(s2.topK, DEFAULT_ARTICLE_TOPK)
        hits == output.hits
    IN /\ Len(hits) = Min(K, CountOf(allPoints, DatedArticle))
       /\ \A i \in 1..Len(hits) :
            /\ \E x \in 1..Len(allPoints) :
                 /\ DatedArticle(allPoints[x])
                 /\ allPoints[x].id = hits[i].id
                 /\ allPoints[x].timestamp = hits[i].timestamp
                 /\ allPoints[x].combined_score = hits[i].combined
            /\ \A x \in 1..Len(allPoints) :
                 allPoints[x].kind = "chunk" => allPoints[x].id # hits[i].id
            /\ i > 1 =>
                 ~ComesBefore([combined_score |-> hits[i].combined,
                               timestamp |-> hits[i].timestamp], hits[i - 1])
            /\ Cardinality({x \in 1..Len(allPoints) :
                              DatedArticle(allPoints[x]) /\ ComesBefore(allPoints[x], hits[i])})
                 <= i - 1

\* search_articles has cut three articles to the best two, the first of which
\* is older than the second, and has left out a chunk
C20_Witness ==
  /\ Assembled({"search_articles"})
  /\ s2.topK = 2
  /\ CountOf(allPoints, DatedArticle) = 3
  /\ Len(output.hits) = 2
  /\ output.hits[1].timestamp < output.hits[2].timestamp
  /\ output.hits[1].combined > output.hits[2].combined

\* filter_only_articles has left out a chunk and an article out of the date
\* range, and returned the most recent article
C20_WitnessFilterOnly ==
  /\ Assembled({"filter_only_articles"})
  /\ s2.topK = 1
  /\ Len(output.hits) = 1
  /\ \E i, j, k \in 1..Len(allPoints) :
       /\ allPoints[i].kind = "chunk"
       /\ allPoints[j].kind = "article" /\ ~inDateRange(allPoints[j].timestamp, s2.filters)
       /\ DatedArticle(allPoints[k])

\* the point comes before the entry in the order of byCombinedThenTsDesc
ScoreBefore(p, hit) ==
  \/ p.combined_score > hit.combined
  \/ p.combined_score = hit.combined /\ p.timestamp > hit.timestamp

\* the group of the site holds size eligible article points of the site, the
\* highest ranked ones, by descending combined score
BestScoredGroup(site, size) ==
  /\ site \in DOMAIN output.groups
  /\ LET g == output.groups[site]
     IN /\ Len(g) = size
        /\ \A i \in 1..Len(g) :
             /\ \E x \in 1..Len(allPoints) :
                  /\ EligibleAt(allPoints[x], site)
                  /\ allPoints[x].id = g[i].id
                  /\ allPoints[x].combined_score = g[i].combined
                  /\ allPoints[x].timestamp = g[i].timestamp
             /\ i > 1 => ~ScoreBefore([combined_score |-> g[i].combined,
                                       timestamp |-> g[i].timestamp], g[i - 1])
             /\ Cardinality({x \in 1..Len(allPoints) :
                               /\ EligibleAt(allPoints[x], site)
                               /\ ScoreBefore(allPoints[x], g[i])}) <= i - 1

\* a chunk in the date range that names its article
ContextChunk(p) == DatedChunk(p) /\ Len(articleIdOf(p)) > 0

\* the context is the bundle of the chunk points of allPoints for the limit,
\* and there is one exactly when a chunk in the date range names its article
SharedContext(limit) ==
  /\ output.context = buildContextFromChunks(allPoints, limit, s2.filters)
  /\ output.context.present <=> CountOf(allPoints, ContextChunk) > 0

Snippets ==
  UNION {{output.context.articles[i].chunks[j].snippet :
            j \in 1..Len(output.context.articles[i].chunks)} :
         i \in 1..Len(output.context.articles)}

\* the collapsed contents of the chunks that may be in the context
CollapsedContents ==
  {CollapseWs(ToStr(OrElse(Get(allPoints[i].payload, "content"), Str(<<>>)))) :
     i \in {x \in 1..Len(allPoints) : ContextChunk(allPoints[x])}}

\* no two adjacent characters of the text are spaces
SingleSpaced(one) == \A i \in 1..(Len(one) - 1) : ~(one[i] = " " /\ one[i + 1] = " ")

\* a word ends at the character c of the text, or before it
WordBoundary(one, c) == c = 0 \/ one[c] = " " \/ one[c + 1] = " "

\* the text cut at the last word boundary at or before the character limit,
\* stripped of trailing whitespace and followed by the ellipsis
CutAtWord(one, limit) ==
  LET c == CHOOSE x \in 0..limit :
             /\ WordBoundary(one, x)
             /\ \A y \in (x + 1)..limit : ~WordBoundary(one, y)
  IN TrimRight(SubSeq(one, 1, c)) \o <<"hellip">>

\* C22: every snippet of the context is the collapsed content of a chunk (runs
\* of whitespace made single spaces): unchanged when it has at most 320
\* characters, and otherwise cut at the last word boundary at or before the
\* character 320, never inside a word, stripped of trailing whitespace and
\* followed by one ellipsis; no snippet has more than 321 characters.
C22_SnippetAtWordBoundary ==
  Assembled(ContextIntents) =>
    \A s \in Snippets :
      /\ Len(s) <= 321
      /\ \E one \in CollapsedContents :
           /\ SingleSpaced(one)
           /\ s = IF Len(one) <= 320 THEN one ELSE CutAtWord(one, 320)

\* the part of C22 that the code keeps: the collapsed content unchanged up to
\* 320 characters, otherwise its first 320 characters stripped of trailing
\* whitespace and followed by the ellipsis, at most 321 characters in all
C22_SnippetCutAtLimit ==
  Assembled(ContextIntents) =>
    \A s \in Snippets :
      /\ Len(s) <= 321
      /\ \E one \in CollapsedContents :
           /\ SingleSpaced(one)
           /\ s = IF Len(one) <= 320 THEN one
                  ELSE TrimRight(SubSeq(one, 1, 320)) \o <<"hellip">>

\* a content of 330 characters has given a snippet of 321 whose last letter
\* is inside a word
C22_WitnessMidWord ==
  /\ Assembled(ContextIntents)
  /\ \E s \in Snippets : \E one \in CollapsedContents :
       /\ Len(one) = 330 /\ Len(s) = 321
       /\ s = SubSeq(one, 1, 320) \o <<"hellip">>
       /\ one[320] # " " /\ one[321] # " "

\* the text without the quote characters that surround it
RECURSIVE StripSurrounding(_)
StripSurrounding(s) ==
  IF Len(s) > 0 /\ (IsQuote(s[1]) \/ IsWs(s[1])) THEN StripSurrounding(Tail(s))
  ELSE IF Len(s) > 0 /\ (IsQuote(s[Len(s)]) \/ IsWs(s[Len(s)]))
  THEN StripSurrounding(SubSeq(s, 1, Len(s) - 1))
  ELSE s

\* the first of the texts that is not empty
FirstNonEmpty(texts) == texts[CHOOSE i \in 1..Len(texts) :
                                /\ Len(texts[i]) > 0
                                /\ \A j \in 1..(i - 1) : Len(texts[j]) = 0]

\* C23: the query_text of prepare_plan is the first non-empty of the phrase
\* without the quote characters that surround it (those inside it kept), the
\* trimmed keywords and the default literal; it is never empty, also when the
\* phrase is made of quote characters only.
C23_QueryTextNeverEmpty ==
  pc = "dsl_embed" =>
    /\ Len(pp.query_text) > 0
    /\ pp.query_text = FirstNonEmpty(<<StripSurrounding(toStringSafe(input.phrase)),
                                       toStringSafe(input.keywords),
                                       DefaultQueryText>>)

\* what prepare_plan does: a phrase that is not blank gives the query_text,
\* every quote character removed and the rest trimmed, even when nothing is left
C23_PhraseWins ==
  (pc = "dsl_embed" /\ Len(toStringSafe(input.phrase)) > 0) =>
    /\ pp.query_text = stripQuotes(input.phrase)
    /\ \A i \in 1..Len(pp.query_text) : ~IsQuote(pp.query_text[i])

\* a phrase made of one quote character has given an empty query_text
C23_WitnessEmpty ==
  /\ pc = "dsl_embed"
  /\ input.phrase = Str(<<"\"">>)
  /\ pp.query_text = <<>>

\* the orders in which n responses can reach step_6
Orders(n) == {f \in [1..n -> 1..n] : \A i, j \in 1..n : f[i] = f[j] => i = j}

\* the output of step_6 when the responses come in the order f
OutputInOrder(f) ==
  assemble(s2, plan.exact_phrase,
           collectPoints([i \in 1..Len(allItems) |-> allItems[f[i]]], nowTs))

\* C24: the output of step_6 is the same in whatever order the responses of
\* the fan-out come: same hits, same groups, same context, also when points
\* tie at the place where a list is cut.
C24_OrderIndependent ==
  pc = "assembled" => \A f \in Orders(Len(allItems)) : OutputInOrder(f) = output

\* no two points of different responses have the same timestamp
NoSharedTimestamp ==
  \A i, j \in 1..Len(allItems) :
    i # j =>
      \A x \in 1..Len(CarriedBy(allItems[i])), y \in 1..Len(CarriedBy(allItems[j])) :
        normalizePoint(CarriedBy(allItems[i])[x], nowTs).timestamp
          # normalizePoint(CarriedBy(allItems[j])[y], nowTs).timestamp

\* what the code keeps of C24: the order of the responses does not matter when
\* no two points of different responses have the same timestamp
C24_OrderIndependentUntied ==
  (pc = "assembled" /\ NoSharedTimestamp) =>
    \A f \in Orders(Len(allItems)) : OutputInOrder(f) = output

\* two responses with points of different timestamps, of which one is cut
C24_WitnessUntied ==
  /\ pc = "assembled" /\ NoSharedTimestamp
  /\ Len(allItems) = 2
  /\ Len(CarriedBy(allItems[1])) > 0 /\ Len(CarriedBy(allItems[2])) > 0
  /\ s2.intent = "latest_by_site" /\ s2.per_site = 1
  /\ Len(output.groups[<<"a">>]) = 1

\* date_from and date_to both give a second, and that of date_from is later
InvertedRange ==
  LET gte == parseDate6(Get(s2.filters, "date_from"), FALSE)
      lte == parseDate6(Get(s2.filters, "date_to"), TRUE)
  IN ~Falsy(gte) /\ ~Falsy(lte) /\ gte.n > lte.n

\* the output has no hit, no entry in a group and no context
EmptyOutput ==
  /\ Len(output.hits) = 0
  /\ \A site \in DOMAIN output.groups : Len(output.groups[site]) = 0
  /\ ~output.context.present

\* the point has no timestamp
Undated(p) == p.timestamp = 0

\* C25 as stated: with date_from later than date_to no point passes the date
\* check, and the output of every intent has no hit, no entry in a group and
\* no context.
C25_InvertedRangeEmpty ==
  (pc = "assembled" /\ InvertedRange) => EmptyOutput

\* C25: with date_from later than date_to no point that has a timestamp
\* passes the date check: the output of every intent is what the points
\* without timestamp alone give, and it has no hit, no entry in a group and no
\* context when every point has a timestamp.
C25_InvertedRangeUndated ==
  (pc = "assembled" /\ InvertedRange) =>
    /\ output = assemble(s2, plan.exact_phrase, SelectSeq(allPoints, Undated))
    /\ \A i \in 1..Len(output.hits) : ~output.hits[i].hasTimestamp
    /\ \A site \in DOMAIN output.groups :
         \A i \in 1..Len(output.groups[site]) : ~output.groups[site][i].hasTimestamp
    /\ CountOf(allPoints, Undated) = 0 => EmptyOutput

\* an article between the two dates and one without timestamp: the only hit
\* is the one without timestamp
C25_Witness ==
  /\ Assembled({"search_articles"}) /\ InvertedRange
  /\ \E i, j \in 1..Len(allPoints) :
       /\ allPoints[i].kind = "article" /\ allPoints[i].timestamp = Day1 + 86400
       /\ allPoints[j].kind = "article" /\ allPoints[j].timestamp = 0
  /\ Len(output.hits) = 1
  /\ ~output.hits[1].hasTimestamp

\* every point has a timestamp and the output is empty
C25_WitnessEmpty ==
  /\ Assembled({"summarize"}) /\ InvertedRange
  /\ Len(allPoints) = 2 /\ CountOf(allPoints, Undated) = 0
  /\ allPoints[1].kind # allPoints[2].kind
  /\ EmptyOutput

\* the serialized results of the output: its hits and the entries of its groups
Serialized ==
  {output.hits[i] : i \in 1..Len(output.hits)}
    \cup UNION {{output.groups[site][i] : i \in 1..Len(output.groups[site])} :
                site \in DOMAIN output.groups}

\* the field set of the intent
FieldSet ==
  IF s2.intent \in {"search_chunks", "filter_only_chunks"} THEN ChunkHitFields
  ELSE ArticleHitFields

\* the payload of the result has the keys of the field set that the payload of
\* its point has, with their values, and no other key than those of extra
ProjectionOnto(h, extra) ==
  /\ h.payload.t = "object"
  /\ DOMAIN h.payload.o \subseteq FieldSet \cup extra
  /\ \E x \in 1..Len(allPoints) :
       /\ allPoints[x].id = h.id
       /\ \A k \in DOMAIN h.payload.o : h.payload.o[k] = Get(allPoints[x].payload, k)
       /\ \A k \in FieldSet : HasOwn(allPoints[x].payload, k) => k \in DOMAIN h.payload.o

\* C26 as stated: the payload of every serialized result has no key outside
\* the field set of the intent: title, url, site, author, published_at for
\* latest_by_site and the article listings, url, content, site, author,
\* published_at for the chunk listings.
C26_PayloadWithinFieldSet ==
  pc = "assembled" => \A h \in Serialized : ProjectionOnto(h, {})

\* C26: the payload of every serialized result has the keys of the field set
\* of the intent that the payload of the backend has, and besides them the
\* date keys indexed_at, published_at_ts and indexed_at_ts when the payload of
\* the backend has them; it has no other key.
C26_PayloadProjection ==
  pc = "assembled" => \A h \in Serialized : ProjectionOnto(h, DateFieldKeys)

\* an article whose payload has lang, content and the date keys: the hit has
\* the date keys and neither lang nor content
C26_Witness ==
  /\ Assembled({"search_articles"})
  /\ \E h \in Serialized : \E x \in 1..Len(allPoints) :
       /\ allPoints[x].id = h.id
       /\ {"lang", "content", "indexed_at_ts"} \subseteq DOMAIN allPoints[x].payload.o
       /\ "indexed_at_ts" \in DOMAIN h.payload.o
       /\ "title" \in DOMAIN h.payload.o
       /\ "lang" \notin DOMAIN h.payload.o /\ "content" \notin DOMAIN h.payload.o

\* the first of article_id, doc_id and url of the chunk that is not blank,
\* trimmed; the empty text when there is none
FirstNonBlank(p) ==
  LET texts == [i \in 1..3 |->
                  LET v == Get(p.payload, <<"article_id", "doc_id", "url">>[i])
                  IN IF Falsy(v) THEN <<>> ELSE Trim(ToStr(v))]
  IN IF \A i \in 1..3 : Len(texts[i]) = 0 THEN <<>> ELSE FirstNonEmpty(texts)

\* the greatest number of a set
SetMax(S) == CHOOSE m \in S : \A x \in S : x <= m

\* the context, when Identity names the article of a chunk: one article for
\* each identity of the chunks in the date range, the articles ordered by the
\* timestamp of their best chunk (the one of highest combined score) and then
\* by its combined score, both descending; max(limit, 5) of them kept, the
\* first in that order; unique_sites the sites of the kept articles that are
\* not empty, sorted and without duplicate
ContextRanked(Identity(_)) ==
  LET dated == {x \in 1..Len(allPoints) : DatedChunk(allPoints[x])}
      ids == {Identity(allPoints[x]) : x \in dated} \ {<<>>}
      BestScore(id) ==
        SetMax({allPoints[x].combined_score : x \in {y \in dated : Identity(allPoints[y]) = id}})
      BestTs(id) ==
        SetMax({allPoints[x].timestamp :
                  x \in {y \in dated : /\ Identity(allPoints[y]) = id
                                        /\ allPoints[y].combined_score = BestScore(id)}})
      Before(a, b) ==
        \/ BestTs(a) > BestTs(b)
        \/ BestTs(a) = BestTs(b) /\ BestScore(a) > BestScore(b)
      articles == output.context.articles
      us == output.context.unique_sites
      sites == {articles[i].site : i \in {x \in 1..Len(articles) : ~Falsy(articles[x].site)}}
  IN /\ Len(articles) = Min(Cardinality(ids), Max(RequestedLimit, 5))
     /\ \A i \in 1..Len(articles) :
          /\ articles[i].id \in ids
          /\ \A x \in 1..Len(articles) : articles[x].id = articles[i].id => x = i
          /\ i > 1 => ~Before(articles[i].id, articles[i - 1].id)
          /\ Cardinality({id \in ids : Before(id, articles[i].id)}) <= i - 1
     /\ {us[k] : k \in 1..Len(us)} = sites
     /\ Len(us) = Cardinality(sites)
     /\ \A k \in 1..(Len(us) - 1) : StrLess(ToStr(us[k]), ToStr(us[k + 1]))

\* C27: the context groups the chunks by the first non-empty of article_id,
\* doc_id and url, and drops those that have none; the articles are ordered by
\* the timestamp of the best chunk descending, then by its combined score
\* descending; at most max(requested limit, 5) articles are kept;
\* unique_sites is the sorted set, without duplicate, of the non-empty sites of
\* the kept articles.
C27_ContextByFirstNonEmpty ==
  Assembled(ContextIntents) => ContextRanked(FirstNonBlank)

\* what the code keeps of C27: the same with the identity that the code takes,
\* the first of article_id, doc_id and url that is truthy, trimmed
C27_ContextByFirstTruthy ==
  Assembled(ContextIntents) => ContextRanked(articleIdOf)

\* seven articles and a limit of 2: the five most recent are kept, and the
\* site B of the two others is not in unique_sites
C27_WitnessKept ==
  /\ Assembled({"backgrounder"})
  /\ RequestedLimit = 2
  /\ Len(output.context.articles) = 5
  /\ output.context.articles[1].id = <<"2">>
  /\ output.context.unique_sites = <<Str(<<"a">>), Str(<<"b">>)>>
  /\ \E x \in 1..Len(allPoints) : siteOf(allPoints[x]) = <<"B">>

\* a chunk named by doc_id alone and one named by url alone have each given
\* an article
C27_WitnessFallback ==
  /\ Assembled({"summarize"})
  /\ Len(output.context.articles) = 2
  /\ output.context.articles[1].id = <<"b">>
  /\ output.context.articles[2].id = <<"A">>
  /\ \A x \in 1..Len(allPoints) : Get(allPoints[x].payload, "article_id") = Undef

\* C28: every request that step_5 emits has a limit of at least 1, whatever
\* the intent and the integers topK and per_site that step_2 hands over,
\* negative ones too.
C28_LimitAtLeastOne ==
  pc = "done" => \A i \in 1..Len(requests) : requests[i].limit >= 1

\* what the code keeps of C28: the limit is at least 1 for every intent but
\* latest_by_site, whose limit is three times per_site (15 when per_site is 0)
C28_LimitUnlessLatest ==
  pc = "done" =>
    \A i \in 1..Len(requests) :
      IF s2.intent = "latest_by_site"
      THEN requests[i].limit = 3 * OrNum(s2.per_site, DEFAULT_LATEST_PER_SITE)
      ELSE requests[i].limit >= 1

\* a negative topK has given a request with a limit of at least 1, and a
\* negative per_site a request of latest_by_site with a negative limit
C28_WitnessNegative ==
  /\ pc = "done" /\ Len(requests) > 0
  /\ \/ s2.intent # "latest_by_site" /\ s2.topK < 0 /\ requests[1].limit >= 1
     \/ s2.intent = "latest_by_site" /\ s2.per_site < 0 /\ requests[1].limit < 0

\* step_5 has built one request for each site of the filters
PerSiteFanOut ==
  /\ pc = "done" /\ Len(SanitizedSites) > 0
  /\ \/ s2.intent = "latest_by_site"
     \/ s2.intent = "compare_viewpoints" /\ hasVector(embedding, s2.queryText)

\* C29: the fan-out per site of latest_by_site and compare_viewpoints leaves
\* qFilter as step_4 built it, and the filter of the request of the i-th site
\* has the conditions of qFilter followed by one condition on the i-th site,
\* with none of the conditions of the sites before it.
C29_QFilterUnchanged ==
  PerSiteFanOut =>
    /\ qFilter = buildFilter(s2.filters)
    /\ \A i \in 1..Len(SanitizedSites) :
         requests[i].filter.must
           = Append(qFilter.must, fieldMatchAny("site", <<SanitizedSites[i]>>))

\* two sites: the filter of the second request has the conditions of qFilter
\* and the condition on the second site alone
C29_Witness ==
  /\ PerSiteFanOut
  /\ Len(SanitizedSites) = 2
  /\ SanitizedSites[1] # SanitizedSites[2]
  /\ Len(qFilter.must) >= 1
  /\ Len(requests[2].filter.must) = Len(qFilter.must) + 1
  /\ \A c \in 1..Len(requests[2].filter.must) :
       requests[2].filter.must[c] # fieldMatchAny("site", <<SanitizedSites[1]>>)

HitListIntents ==
  {"search_articles", "search_chunks", "filter_only_articles", "filter_only_chunks"}

\* C30: search_articles, search_chunks, filter_only_articles and
\* filter_only_chunks return at most topK hits when topK >= 1 and at most 10
\* otherwise, whatever integer topK is, negative too, and however many points
\* were fetched.
C30_HitsAtMostTopK ==
  Assembled(HitListIntents) =>
    Len(output.hits) <= (IF s2.topK >= 1 THEN s2.topK ELSE DEFAULT_ARTICLE_TOPK)

\* the points of the kind that the intent lists
OfListedKind(p) ==
  p.kind = (IF s2.intent \in {"search_chunks", "filter_only_chunks"} THEN "chunk"
            ELSE "article")

\* what the code keeps of C30: at most topK hits when topK >= 1, at most 10
\* when topK is 0, and when topK is negative all the points of the kind but
\* the last |topK| of the ordered list, however many they are
C30_HitsCut ==
  Assembled(HitListIntents) =>
    Len(output.hits) <= (IF s2.topK >= 1 THEN s2.topK
                         ELSE IF s2.topK = 0 THEN DEFAULT_ARTICLE_TOPK
                         ELSE Max(CountOf(allPoints, OfListedKind) + s2.topK, 0))

\* twelve points: topK = -1 gives eleven hits
C30_WitnessNegative ==
  /\ Assembled(HitListIntents)
  /\ s2.topK = -1
  /\ Len(allPoints) = 12
  /\ Len(output.hits) = 11

\* twelve points: no topK gives ten hits
C30_WitnessDefault ==
  /\ Assembled(HitListIntents)
  /\ s2.topK = 0
  /\ Len(allPoints) = 12
  /\ Len(output.hits) = 10

====
